---- MODULE Spec2Model ----
(***************************************************************************)
(* Verification model of the crawl-normalize-dedupe pipeline of            *)
(* japanese-real-estate-scraping (crawlers/).                              *)
(*                                                                         *)
(*   SpecFetch     the resilient fetcher, fetch_with_backoff               *)
(*   SpecCrawl     the per-site extractors and the incremental drivers     *)
(*   SpecBackfill  the concurrent backfill updaters                        *)
(*                                                                         *)
(* Durations are counted in half seconds, so that INITIAL_BACKOFF = 0.5 s  *)
(* is the integer 1 and INITIAL_BACKOFF = 30 s is the integer 60.          *)
(***************************************************************************)
EXTENDS Integers, Sequences, FiniteSets, TLC

VARIABLES
    \* ---- fetch_with_backoff (one call) ----
    f_initial,   \* INITIAL_BACKOFF of the module the call runs in
    f_pc,        \* "request" | "sleep" | "done"
    attempt,     \* loop variable of `for attempt in range(MAX_RETRIES)`
    backoff,     \* local `backoff`
    requests,    \* number of requests.get calls made so far
    failures,    \* number of those that failed (non-200 or RequestException)
    sleeps,      \* the durations passed to time.sleep, in call order
    f_result,    \* "pending" | "body" | "None": what the call returned
    response     \* what the last requests.get produced: a status code or RequestException

fetchVars == <<f_initial, f_pc, attempt, backoff, requests, failures, sleeps, f_result,
               response>>

VARIABLES
    \* ---- crawl drivers (nifty.py, hatomark.py, sumai.py, nifty_rentals.py) ----
    adapter,     \* the crawler script that is run
    driver,      \* main(): "idle" | "running" | "crashed"
    run,         \* number of runs of main() started so far
    site,        \* site[s]: the index pages of sub-scope s, as far as a run has read them:
                 \* [len: number of listing blocks, blocks: the blocks read so far]
    collection,  \* the site partition: the inserted documents, in insert order
    pc,          \* pc[s]: position of the worker of sub-scope s
    page,        \* page[s]: local `page` of the page loop
    idx,         \* idx[s]: position of `listing` in `listings`
    last,        \* the step taken last: [scope, ev]
    ins_run,     \* ins_run[s]: documents inserted for sub-scope s in this run
    clean,       \* no fetch was exhausted and nothing was raised in this run
    signalled,   \* no page loop of this run has ended otherwise than by its stop
                 \* signal (an empty page, a known link)
    prev         \* [complete, clean, signalled]: how the run before this one went

crawlVars == <<adapter, driver, run, site, collection, pc, page, idx, last,
               ins_run, clean, signalled, prev>>

VARIABLES
    \* ---- backfill updaters (nifty_updates.py, updates/sumai.py) ----
    updater,     \* the update script that is run
    pass,        \* pass[p]: main() of run p of the script: "idle" | "running" | "complete"
    tasks,       \* tasks[p][id]: the process_document(doc) task of run p for document id:
                 \* [doc: the document as main() read it, pc, contact: the contact
                 \*  number found, urls: additional image URLs found, new: new_image_paths]
    b_last       \* the step taken last: [pass, id, ev]

backfillVars == <<updater, pass, tasks, b_last>>

VARIABLES
    \* ---- one listing, from its markup to the document (scrape_page's loop body) ----
    e_adapter,    \* the crawler script whose scrape_page builds the document
    e_pc,         \* "fields" | "images" | "download" | "price" | "prefecture" | "insert" | "done" | "raised"
    e_input,      \* what the listing's markup holds: [price, location, urls, saved]
    listing_data, \* local `listing_data`: the document being built, field by field
    img_urls,     \* local `img_urls` / `image_urls`: the image elements resolved, in download order
    image_paths   \* local `image_paths`: what save_image returned, download by download

extractVars == <<e_adapter, e_pc, e_input, listing_data, img_urls, image_paths>>

VARIABLES
    \* ---- the threads of a script with a worker pool and their store handles ----
    program,            \* the script: one of Programs
    handles,            \* the MongoClient objects constructed so far: handles[h] is the thread that constructed h
    thread_local,       \* thread_local.collection of each thread, 0 while the attribute is not set
    item,               \* the item (page loop or document) each worker thread is processing, 0 when it is free
    thread_collection,  \* local `collection` / `thread_collection` of the call a worker thread is in
    pending,            \* submitted items no thread has taken yet
    ops                 \* the store operations done by worker threads so far: [thread, handle, item]

poolVars == <<program, handles, thread_local, item, thread_collection, pending, ops>>

VARIABLES
    \* ---- two runs of one crawler at the same time, on the same index page ----
    d_adapter,   \* the crawler script both processes run
    d_listings,  \* `listings` of the index page: the links of its blocks, in page order
    d_pc,        \* each process: "idle" | "gate" | "insert" | "done"
    d_idx        \* the block of d_listings each process is at

twinVars == <<d_adapter, d_listings, d_pc, d_idx>>

VARIABLES
    \* ---- maintenance scripts (cleanup.py, fix_binary_paths.py) ----
    files,       \* the image files on disk: the set of their paths
    c_task       \* c_task[id]: the process_document(collection_name, doc) task of
                 \* cleanup.py for document id: [doc: the document as read by the
                 \* script, pc, status: what requests.get gave, i: the index in
                 \* doc.images the loop is at, attempted: the paths os.path.exists
                 \* was called with]

VARIABLES
    \* ---- fix_binary_paths.py ----
    fix_run,     \* number of runs of fix_collection_paths started so far
    fix_docs,    \* `documents` of the run, as far as the loop has not reached
                 \* them: [id, images] as read by the aggregate
    fix_last     \* the document the loop handled last: [id, failed: the places
                 \* in its images whose file could not be moved]

fixVars == <<fix_run, fix_docs, fix_last>>

diskVars == <<files, c_task, fixVars>>

vars == <<fetchVars, crawlVars, backfillVars, extractVars, poolVars, twinVars, diskVars>>

(***************************************************************************)
(* Bounds of the model and the sets the inputs are drawn from              *)
(***************************************************************************)
\* sub-scopes (prefectures, cities) of a site; sumai has a single one
NumScopes == 2

\* distinct listing links a site can show
NumLinks == 2

\* listing blocks on one index page
MaxBlocks == 2

\* index pages of a sub-scope that can hold listings; later pages are empty
MaxPages == 1

\* runs of main() of the crawler
MaxRuns == 2

Adapters == {"nifty", "hatomark", "sumai", "nifty_rentals"}

Scopes == 1..NumScopes

\* sumai.py pages through one list; the others loop over `prefectures`
ScopesOf(a) == IF a = "sumai" THEN {1} ELSE Scopes

Links == 1..NumLinks

\* a listing block in which find("a") finds nothing
NoAnchor == 0

Blocks == Links \cup {NoAnchor}

\* documents of the partition a backfill pass works on
NumDocs == 2

\* image URLs a detail page can show beyond the first
MaxNewImages == 2

\* runs of an update script, which may overlap
MaxPasses == 2

\* process_document tasks submitted by all the runs of an update script together
MaxTasks == 3

Passes == 1..MaxPasses

DocIds == 1..NumDocs

\* how many listing blocks the index page number p of a sub-scope can hold
PageLengths(p) == IF p > MaxPages THEN {0} ELSE 0..MaxBlocks

(***************************************************************************)
(* Resilient fetcher                                                       *)
(***************************************************************************)
MAX_RETRIES == 5

\* INITIAL_BACKOFF = 0.5 (sumai.py, nifty_rentals.py), in half seconds
INITIAL_BACKOFF_FAST == 1

\* INITIAL_BACKOFF = 30 (hatomark.py, nifty_updates.py, updates/sumai.py)
INITIAL_BACKOFF == 60

\* What one requests.get can produce: a status code, or a RequestException
\* (network error, timeout), written 0.
RequestException == 0
Responses == {200, 204, 404, 503, RequestException}

\* `response` before the first requests.get
NoResponse == -1

\* `if response.status_code == 200`
IsSuccess(r) == r = 200

NextBackoff_Tripled(b) == b * 3

\* `backoff *= 2`
NextBackoff(b) == b * 2

\* random.uniform(0, backoff): sampled at multiples of the initial backoff,
\* both ends of the interval included.
Jitters(b, initial) == {j \in 0..b : j % initial = 0}

RECURSIVE Pow2(_)
Pow2(n) == IF n = 0 THEN 1 ELSE 2 * Pow2(n - 1)

(***************************************************************************)
(* The components at rest                                                  *)
(***************************************************************************)
FetchIdle ==
    /\ f_initial = INITIAL_BACKOFF
    /\ f_pc = "done"
    /\ attempt = 0
    /\ backoff = f_initial
    /\ requests = 0
    /\ failures = 0
    /\ sleeps = <<>>
    /\ f_result = "pending"
    /\ response = NoResponse

\* the crawl drivers at rest (the partition itself is set by each specification)
CrawlIdle ==
    /\ adapter = "nifty"
    /\ driver = "idle"
    /\ run = 0
    /\ site = [s \in Scopes |-> <<>>]
    /\ pc = [s \in Scopes |-> "unused"]
    /\ page = [s \in Scopes |-> 1]
    /\ idx = [s \in Scopes |-> 0]
    /\ last = [scope |-> 0, ev |-> "none"]
    /\ ins_run = [s \in Scopes |-> 0]
    /\ clean = TRUE
    /\ signalled = TRUE
    /\ prev = [complete |-> FALSE, clean |-> FALSE, signalled |-> FALSE]

BackfillIdle ==
    /\ updater = "nifty_updates"
    /\ pass = [p \in Passes |-> "idle"]
    /\ tasks = [p \in Passes |-> <<>>]
    /\ b_last = [pass |-> 0, id |-> 0, ev |-> "none"]

ExtractIdle ==
    /\ e_adapter = "nifty"
    /\ e_pc = "done"
    /\ e_input = <<>>
    /\ listing_data = <<>>
    /\ img_urls = <<>>
    /\ image_paths = <<>>

\* no second process of a crawler
TwinIdle ==
    /\ d_adapter = "nifty"
    /\ d_listings = <<>>
    /\ d_pc = <<>>
    /\ d_idx = <<>>

\* no maintenance script has been started, no file is looked at
DiskIdle ==
    /\ files = {}
    /\ c_task = <<>>
    /\ fix_run = 0
    /\ fix_docs = <<>>
    /\ fix_last = [id |-> 0, failed |-> {}]

\* no script with a worker pool has been started
PoolIdle ==
    /\ program = "nifty"
    /\ handles = <<>>
    /\ thread_local = <<>>
    /\ item = <<>>
    /\ thread_collection = <<>>
    /\ pending = 0
    /\ ops = {}

\* one call of fetch_with_backoff(url)
InitFetch ==
    /\ CrawlIdle
    /\ collection = <<>>
    /\ BackfillIdle
    /\ ExtractIdle
    /\ PoolIdle
    /\ TwinIdle
    /\ DiskIdle
    /\ f_initial \in {INITIAL_BACKOFF_FAST, INITIAL_BACKOFF}
    /\ f_pc = "request"
    /\ attempt = 0
    /\ backoff = f_initial
    /\ requests = 0
    /\ failures = 0
    /\ sleeps = <<>>
    /\ f_result = "pending"
    /\ response = NoResponse

\* try: response = requests.get(url, timeout=10); return response.text on 200
Request ==
    /\ f_pc = "request"
    /\ attempt < MAX_RETRIES
    /\ \E r \in Responses :
          /\ response' = r
          /\ requests' = requests + 1
          /\ IF IsSuccess(r)
                THEN /\ f_pc' = "done"
                     /\ f_result' = "body"
                     /\ failures' = failures
                ELSE /\ f_pc' = "sleep"
                     /\ f_result' = f_result
                     /\ failures' = failures + 1
    /\ UNCHANGED <<f_initial, attempt, backoff, sleeps>>
    /\ UNCHANGED <<crawlVars, backfillVars, extractVars, poolVars, twinVars, diskVars>>

\* jitter = random.uniform(0, backoff); time.sleep(jitter); backoff *= 2;
\* then the next iteration of the for loop, or `return None` after the last.
Sleep ==
    /\ f_pc = "sleep"
    /\ \E jitter \in Jitters(backoff, f_initial) :
          sleeps' = Append(sleeps, jitter)
    /\ backoff' = NextBackoff(backoff)
    /\ attempt' = attempt + 1
    /\ IF attempt + 1 < MAX_RETRIES
          THEN /\ f_pc' = "request"
               /\ f_result' = f_result
          ELSE /\ f_pc' = "done"
               /\ f_result' = "None"
    /\ UNCHANGED <<f_initial, requests, failures, response>>
    /\ UNCHANGED <<crawlVars, backfillVars, extractVars, poolVars, twinVars, diskVars>>

NextFetch == Request \/ Sleep

SpecFetch == InitFetch /\ [][NextFetch]_vars

(***************************************************************************)
(* C3: when the first N attempts fail and attempt N+1 succeeds (N < 5),    *)
(* fetch_with_backoff returns that body after exactly N+1 requests and     *)
(* exactly N sleeps, the k-th sleep being at most INITIAL_BACKOFF*2^(k-1). *)
(***************************************************************************)
C3_SuccessAfterNFailures ==
    (f_pc = "done" /\ f_result = "body") =>
        /\ failures < MAX_RETRIES
        /\ requests = failures + 1
        /\ Len(sleeps) = failures
        /\ \A k \in 1..Len(sleeps) : sleeps[k] <= f_initial * Pow2(k - 1)

\* three failures, then a success, the third sleep at its upper bound
C3_Witness ==
    /\ f_pc = "done"
    /\ f_result = "body"
    /\ failures = 3
    /\ Len(sleeps) = 3
    /\ sleeps[3] = f_initial * 4

(***************************************************************************)
(* C4: when every attempt fails, fetch_with_backoff returns the failure    *)
(* value after exactly 5 requests, with no further request and no further  *)
(* sleep once the 5th request has failed.                                  *)
(***************************************************************************)
C4_NoSleepAfterLastFailure ==
    [][(requests = MAX_RETRIES /\ failures = MAX_RETRIES)
          => (requests' = requests /\ sleeps' = sleeps)]_vars

\* what the code does: five requests, and a sleep after each of them
C4_FailureAfterFiveRequests ==
    (f_pc = "done" /\ f_result = "None") =>
        /\ requests = MAX_RETRIES
        /\ failures = MAX_RETRIES
        /\ Len(sleeps) = MAX_RETRIES

(***************************************************************************)
(* Per-site extractors and incremental crawl drivers                       *)
(***************************************************************************)
\* nifty.py and hatomark.py: ThreadPoolExecutor(max_workers=MAX_WORKERS)
MAX_WORKERS == 4

\* nifty.py and hatomark.py run process_prefecture in a thread pool;
\* sumai.py and nifty_rentals.py loop in the main thread.
Parallel(a) == a \in {"nifty", "hatomark"}

\* hatomark.py, nifty.py, sumai.py fetch the listing's own page;
\* nifty_rentals.py builds the document from the index page alone.
HasDetailFetch(a) == a # "nifty_rentals"

\* What the page loop does with an exception raised by scrape_page:
\*   nifty.py, hatomark.py   except Exception: ...; break
\*   sumai.py                except Exception: ...  (falls through to page += 1)
\*   nifty_rentals.py        no try: the exception leaves main()
HandlerOf(a) ==
    CASE a \in {"nifty", "hatomark"} -> "break"
      [] a = "sumai" -> "next_page"
      [] a = "nifty_rentals" -> "none"

\* The value fetch_with_backoff returns for the responses of its (at most
\* MAX_RETRIES) requests: the body of the first 200, else None.
fetch_with_backoff(responses) ==
    IF \E k \in 1..MAX_RETRIES : IsSuccess(responses[k]) THEN "body" ELSE "None"

FetchReturns == {fetch_with_backoff(rs) : rs \in [1..MAX_RETRIES -> Responses]}

\* `listings` of the page the worker of s is in
listings(s) == site[s][page[s]]

\* the listing block the worker of s is at
listing(s) == listings(s).blocks[idx[s]]

find_one_Blind(link) == FALSE

\* collection.find_one({"link": link}) found a document
find_one(link) == \E i \in DOMAIN collection : collection[i].link = link

\* the events in which a listing, a page or a sub-scope is given up
Dropping == {"index_failed", "detail_failed", "discovery_failed", "no_anchor",
             "raise", "duplicate_raise"}

\* the events in which an exception leaves scrape_page
Raising == {"no_anchor", "raise", "duplicate_raise", "discovery_failed"}

\* what the step logs (logger.info / logger.warning / logger.error)
Event(s, e) ==
    /\ last' = [scope |-> s, ev |-> e]
    /\ clean' = (clean /\ e \notin Dropping)
    /\ signalled' = (signalled /\ e \notin Raising \cup {"index_failed"})

\* `break` of the page loop, or `if not scrape_page(...): break`
LoopBreak(s) ==
    /\ pc' = [pc EXCEPT ![s] = "done"]
    /\ UNCHANGED <<page, idx, driver>>

\* `page += 1` and the next iteration of `while True`
NextPage(s) ==
    /\ pc' = [pc EXCEPT ![s] = "index"]
    /\ page' = [page EXCEPT ![s] = @ + 1]
    /\ idx' = [idx EXCEPT ![s] = 0]
    /\ UNCHANGED driver

\* scrape_page returning a truthy value where it returns False
ReturnFalse_Truthy(s) == NextPage(s)

\* scrape_page returns False
ReturnFalse(s) == LoopBreak(s)

\* scrape_page returns True
ReturnTrue(s) == NextPage(s)

\* the next iteration of `for listing in listings`, `return True` after the last
NextListing(s) ==
    IF idx[s] < listings(s).len
       THEN /\ idx' = [idx EXCEPT ![s] = @ + 1]
            /\ pc' = [pc EXCEPT ![s] = "gate"]
            /\ UNCHANGED <<page, driver>>
       ELSE ReturnTrue(s)

\* an exception leaves scrape_page
Raise(s) ==
    CASE HandlerOf(adapter) = "break" -> LoopBreak(s)
      [] HandlerOf(adapter) = "next_page" -> NextPage(s)
      [] HandlerOf(adapter) = "none" ->
            /\ pc' = [pc EXCEPT ![s] = "crashed"]
            /\ driver' = "crashed"
            /\ UNCHANGED <<page, idx>>

\* `if not listings:` sumai.py returns the tuple (False, "listings"), which
\* `if not scrape_page(page)` takes as true; the others return False
EmptyPage(s) == IF adapter = "sumai" THEN ReturnTrue(s) ELSE ReturnFalse(s)

\* the known link skipped like a listing whose detail page is missing
OnDuplicate_Continue(s) == NextListing(s)

\* `datetime` bound to the module in sumai.py as it is in the other crawlers
datetime_now_Module(a) == [type |-> "datetime", v |-> run]

\* The value of the createdAt expression:
\*   nifty.py, hatomark.py   `import datetime`;
\*                           datetime.datetime.now(datetime.timezone.utc)
\*   sumai.py                `from datetime import datetime`;
\*                           datetime.now(datetime.timezone.utc): the class
\*                           datetime has no attribute timezone
\*   nifty_rentals.py        sets no createdAt
\* A time is modelled by the run it lies in (0: before the first run).
datetime_now(a) ==
    IF a = "sumai" THEN [type |-> "AttributeError"]
                   ELSE [type |-> "datetime", v |-> run]

\* a field the document does not have
NoField == [type |-> "absent"]

\* listing_data["createdAt"] when the document is about to be inserted
createdAt(a) == IF a = "nifty_rentals" THEN NoField ELSE datetime_now(a)

\* existing_doc = collection.find_one({"link": link}): its place in the partition
existing_doc(link) ==
    CHOOSE i \in DOMAIN collection :
        /\ collection[i].link = link
        /\ \A j \in 1..(i - 1) : collection[j].link # link

\* What the duplicate branch leaves in the partition. sumai.py:
\*   collection.update_one({"_id": existing_doc["_id"]},
\*                         {"$set": {"createdAt": datetime.now(...)}})
\* whose argument is evaluated before the call; the others update nothing.
DuplicateStore(link) ==
    IF adapter = "sumai" /\ datetime_now(adapter).type = "datetime"
       THEN [collection EXCEPT ![existing_doc(link)].createdAt = datetime_now(adapter)]
       ELSE collection

\* `if existing_doc:` nifty.py, hatomark.py, nifty_rentals.py return False;
\* sumai.py evaluates datetime.now(datetime.timezone.utc), which raises
\* AttributeError before update_one and before `continue`
OnDuplicate(s) ==
    IF adapter = "sumai"
       THEN IF datetime_now(adapter).type = "datetime" THEN NextListing(s) ELSE Raise(s)
       ELSE ReturnFalse(s)

\* the exhausted fetch of the index page raising instead of returning None
IndexFetchFailed_Raise(s) == Raise(s)

\* html = fetch_with_backoff(url); `if not html: return False`
IndexFetchFailed(s) == ReturnFalse(s)

DetailFetchFailed_Abort(s) == ReturnFalse(s)

\* `if not html2: ...; continue`
DetailFetchFailed(s) == NextListing(s)

InitCrawl ==
    /\ FetchIdle
    /\ BackfillIdle
    /\ ExtractIdle
    /\ PoolIdle
    /\ TwinIdle
    /\ DiskIdle
    /\ adapter \in Adapters
    /\ driver = "idle"
    /\ run = 0
    /\ site = [s \in Scopes |-> <<>>]
    /\ collection = <<>>
    /\ pc = [s \in Scopes |-> "unused"]
    /\ page = [s \in Scopes |-> 1]
    /\ idx = [s \in Scopes |-> 0]
    /\ last = [scope |-> 0, ev |-> "none"]
    /\ ins_run = [s \in Scopes |-> 0]
    /\ clean = TRUE
    /\ signalled = TRUE
    /\ prev = [complete |-> FALSE, clean |-> FALSE, signalled |-> FALSE]

\* main() is started (again, once the run before it has ended)
StartRun ==
    /\ driver # "running"
    /\ run < MaxRuns
    /\ run' = run + 1
    /\ driver' = "running"
    /\ pc' = [s \in Scopes |-> IF s \in ScopesOf(adapter) THEN "queued" ELSE "unused"]
    /\ page' = [s \in Scopes |-> 1]
    /\ idx' = [s \in Scopes |-> 0]
    /\ ins_run' = [s \in Scopes |-> 0]
    /\ prev' = [complete |-> run > 0 /\ driver = "idle",
                clean |-> run > 0 /\ driver = "idle" /\ clean,
                signalled |-> run > 0 /\ driver = "idle" /\ signalled]
    /\ clean' = TRUE
    /\ signalled' = TRUE
    /\ last' = [scope |-> 0, ev |-> "start"]
    /\ UNCHANGED <<adapter, site, collection>>
    /\ UNCHANGED <<fetchVars, backfillVars, extractVars, poolVars, twinVars, diskVars>>

\* nifty_rentals.py finds the cities of a prefecture on a page of the site
\* (get_cities_to_scrape); the other drivers hold the list of their sub-scopes
HasDiscovery(a) == a = "nifty_rentals"

\* get_cities_to_scrape(prefecture) for what fetch_with_backoff(url) returned:
\* the tuple (False, "html") `if not html`, else the list of the city URLs
get_cities_to_scrape(html) ==
    IF html = "None" THEN [type |-> "tuple", v |-> <<"False", "html">>]
                     ELSE [type |-> "list", v |-> <<"city">>]

IsList(value) == value.type = "list"

\* a pool thread takes process_prefecture(prefecture); in the sequential
\* drivers the for loop reaches the sub-scope (nifty_rentals.py: the
\* prefecture, whose cities it then looks up; one city stands for them)
StartWorker(s) ==
    /\ driver = "running"
    /\ pc[s] = "queued"
    /\ IF Parallel(adapter)
          THEN Cardinality({t \in Scopes : pc[t] \in {"index", "gate", "insert"}})
                  < MAX_WORKERS
          ELSE \A t \in ScopesOf(adapter) : t < s => pc[t] = "done"
    /\ \E html \in (IF HasDiscovery(adapter) THEN FetchReturns ELSE {"body"}) :
          IF HasDiscovery(adapter) /\ ~IsList(get_cities_to_scrape(html))
             THEN \* `for city in cities_to_scrape` takes False, the first
                  \* element of the tuple, as a city: scrape_page(False, 1)
                  \* evaluates False.format(1), an AttributeError
                  /\ Raise(s)
                  /\ Event(s, "discovery_failed")
             ELSE /\ pc' = [pc EXCEPT ![s] = "index"]
                  /\ UNCHANGED <<driver, page, idx>>
                  /\ Event(s, "begin")
    /\ UNCHANGED <<adapter, run, site, collection, ins_run, prev>>
    /\ UNCHANGED <<fetchVars, backfillVars, extractVars, poolVars, twinVars, diskVars>>

\* scrape_page up to `for listing in listings`: the index page is fetched
\* and its listing blocks are located. A page read by an earlier run is served
\* as it was; page numbers beyond MaxPages + 1 are not served (the fetch
\* exhausts its attempts).
FetchIndex(s) ==
    /\ driver = "running"
    /\ pc[s] = "index"
    /\ \E html \in FetchReturns :
          IF html = "None"
             THEN /\ IndexFetchFailed(s)
                  /\ Event(s, "index_failed")
                  /\ UNCHANGED site
             ELSE /\ page[s] <= MaxPages + 1
                  /\ \E n \in (IF page[s] <= Len(site[s])
                                  THEN {site[s][page[s]].len}
                                  ELSE PageLengths(page[s])) :
                        /\ site' = IF page[s] <= Len(site[s])
                                      THEN site
                                      ELSE [site EXCEPT ![s] =
                                              Append(@, [len |-> n, blocks |-> <<>>])]
                        /\ IF n = 0
                              THEN EmptyPage(s) /\ Event(s, "empty")
                              ELSE /\ pc' = [pc EXCEPT ![s] = "gate"]
                                   /\ idx' = [idx EXCEPT ![s] = 1]
                                   /\ UNCHANGED <<page, driver>>
                                   /\ Event(s, "page")
    /\ UNCHANGED <<adapter, run, collection, ins_run, prev>>
    /\ UNCHANGED <<fetchVars, backfillVars, extractVars, poolVars, twinVars, diskVars>>

\* what the part of the loop body between the duplicate gate and the insert
\* can end with:
\*   "ok"      the fields are extracted (and the detail page fetched)
\*   "failed"  fetch_with_backoff(link) returned None
\*   "raise"   an exception: a label missing from the static tables
\*             (KeyError), a failing translate_text, markup that is absent
DetailOutcomes(a) ==
    {"ok", "raise"} \cup (IF HasDetailFetch(a) THEN {"failed"} ELSE {})

\* field extraction and the fetch of the listing's own page
Detail(s, out) ==
    CASE out = "ok" ->
            /\ pc' = [pc EXCEPT ![s] = "insert"]
            /\ UNCHANGED <<page, idx, driver>>
            /\ Event(s, "new")
      [] out = "failed" ->
            /\ DetailFetchFailed(s)
            /\ Event(s, "detail_failed")
      [] out = "raise" ->
            /\ Raise(s)
            /\ Event(s, "raise")

\* One listing block, from `link_tag = ...` to just before insert_one: the
\* link, the duplicate gate (find_one), then the steps that touch nothing
\* shared (field extraction, detail fetch, image downloads).
Gate(s) ==
    /\ driver = "running"
    /\ pc[s] = "gate"
    /\ \E block \in (IF idx[s] <= Len(listings(s).blocks)
                        THEN {listing(s)}
                        ELSE Blocks) :
          /\ site' = IF idx[s] <= Len(listings(s).blocks)
                        THEN site
                        ELSE [site EXCEPT ![s][page[s]].blocks = Append(@, block)]
          /\ IF block = NoAnchor
                THEN \* link_tag is None: link_tag["href"] raises TypeError
                     /\ Raise(s)
                     /\ Event(s, "no_anchor")
                     /\ UNCHANGED collection
                ELSE IF find_one(block)
                        THEN /\ OnDuplicate(s)
                             /\ collection' = DuplicateStore(block)
                             /\ Event(s, IF adapter = "sumai"
                                              /\ datetime_now(adapter).type # "datetime"
                                             THEN "duplicate_raise"
                                             ELSE "duplicate")
                        ELSE /\ \E out \in DetailOutcomes(adapter) : Detail(s, out)
                             /\ UNCHANGED collection
    /\ UNCHANGED <<adapter, run, ins_run, prev>>
    /\ UNCHANGED <<fetchVars, backfillVars, extractVars, poolVars, twinVars, diskVars>>

\* listing_data["createdAt"] = ...; collection.insert_one(listing_data).
\* sumai.py: datetime.now(datetime.timezone.utc) raises AttributeError
\* (`datetime` is the class), so insert_one is never reached.
Insert(s) ==
    /\ driver = "running"
    /\ pc[s] = "insert"
    /\ IF createdAt(adapter).type = "AttributeError"
          THEN /\ Raise(s)
               /\ Event(s, "raise")
               /\ UNCHANGED <<collection, ins_run>>
          ELSE /\ collection' = Append(collection, [link |-> listing(s),
                                                    createdAt |-> createdAt(adapter)])
               /\ ins_run' = [ins_run EXCEPT ![s] = @ + 1]
               /\ NextListing(s)
               /\ Event(s, "inserted")
    /\ UNCHANGED <<adapter, run, site, prev>>
    /\ UNCHANGED <<fetchVars, backfillVars, extractVars, poolVars, twinVars, diskVars>>

\* every sub-scope loop has ended: main() returns
EndRun ==
    /\ driver = "running"
    /\ \A s \in ScopesOf(adapter) : pc[s] = "done"
    /\ driver' = "idle"
    /\ last' = [scope |-> 0, ev |-> "end"]
    /\ UNCHANGED <<adapter, run, site, collection, pc, page, idx, ins_run,
                   clean, signalled, prev>>
    /\ UNCHANGED <<fetchVars, backfillVars, extractVars, poolVars, twinVars, diskVars>>

NextCrawl ==
    \/ StartRun
    \/ EndRun
    \/ \E s \in Scopes : StartWorker(s)
    \/ \E s \in Scopes : FetchIndex(s)
    \/ \E s \in Scopes : Gate(s)
    \/ \E s \in Scopes : Insert(s)

SpecCrawl == InitCrawl /\ [][NextCrawl]_vars

\* a document an earlier run of the crawler (of any version of it) left in
\* the partition
StoredDocument(l) == [link |-> l, createdAt |-> [type |-> "datetime", v |-> 0]]

\* main() started on a partition that already holds a document
InitCrawlStored ==
    /\ FetchIdle
    /\ BackfillIdle
    /\ ExtractIdle
    /\ PoolIdle
    /\ TwinIdle
    /\ DiskIdle
    /\ adapter \in Adapters
    /\ driver = "idle"
    /\ run = 0
    /\ site = [s \in Scopes |-> <<>>]
    /\ collection \in {<<StoredDocument(l)>> : l \in Links}
    /\ pc = [s \in Scopes |-> "unused"]
    /\ page = [s \in Scopes |-> 1]
    /\ idx = [s \in Scopes |-> 0]
    /\ last = [scope |-> 0, ev |-> "none"]
    /\ ins_run = [s \in Scopes |-> 0]
    /\ clean = TRUE
    /\ signalled = TRUE
    /\ prev = [complete |-> FALSE, clean |-> FALSE, signalled |-> FALSE]

SpecCrawlStored == InitCrawlStored /\ [][NextCrawl]_vars

(***************************************************************************)
(* C1: with one crawl driver per site partition at a time (its sub-scope   *)
(* workers running concurrently), no two documents of the partition have   *)
(* the same link.                                                          *)
(***************************************************************************)
C1_LinkUnique ==
    \A i, j \in DOMAIN collection :
        i # j => collection[i].link # collection[j].link

\* the worker of s goes on with the listing block after the one it is at,
\* or with the next page when that was the last block of the page
GoesOnAfterListing(s) ==
    IF idx[s] < site'[s][page[s]].len
       THEN pc'[s] = "gate" /\ idx'[s] = idx[s] + 1 /\ page'[s] = page[s]
       ELSE pc'[s] = "index" /\ page'[s] = page[s] + 1

\* nothing of the other sub-scopes' workers changes
OthersUntouched(s) ==
    /\ driver' = driver
    /\ \A t \in Scopes \ {s} : pc'[t] = pc[t] /\ page'[t] = page[t] /\ idx'[t] = idx[t]

StopOnDuplicate(a) == a \in {"nifty", "hatomark", "nifty_rentals"}

C8_NoAnchorSkipped ==
    [][\A s \in Scopes :
          (last'.ev = "no_anchor" /\ last'.scope = s) =>
              GoesOnAfterListing(s) /\ OthersUntouched(s)]_vars

(***************************************************************************)
(* C9: when the detail-page fetch of a listing exhausts its attempts, only *)
(* that listing is dropped: nothing is inserted for it, and the remaining  *)
(* blocks of the page and the following pages are processed as usual.      *)
(***************************************************************************)
C9_DetailFailureDropsOneListing ==
    [][\A s \in Scopes :
          (last'.ev = "detail_failed" /\ last'.scope = s) =>
              /\ collection' = collection
              /\ GoesOnAfterListing(s)
              /\ OthersUntouched(s)]_vars

\* after a failed detail fetch for the first block of a page, the worker is
\* at the second block of the same page
C9_Witness ==
    /\ last.ev = "detail_failed"
    /\ pc[last.scope] = "gate"
    /\ idx[last.scope] = 2
    /\ Len(site[last.scope][page[last.scope]].blocks) = 1

(***************************************************************************)
(* C10: an unexpected exception while a page is processed ends the page    *)
(* loop of that sub-scope (no further page of it is fetched), and every    *)
(* other sub-scope is still processed.                                     *)
(***************************************************************************)
C10_ExceptionEndsOnlyThatSubScope ==
    [][\A s \in Scopes :
          (last'.ev \in Raising /\ last'.scope = s) =>
              /\ pc'[s] = "done"
              /\ OthersUntouched(s)]_vars

(***************************************************************************)
(* Concurrent backfill updaters: nifty_updates.py and updates/sumai.py     *)
(*                                                                         *)
(* The partition is the sequence of its documents; a document is           *)
(*   [link: the site the link points to, images: the stored paths,         *)
(*    contact: the `Contact Number` field].                                *)
(* A stored path is [pass, id, k]: the file a task of run `pass` for       *)
(* document `id` saved for the k-th URL, its name a fresh uuid4(); pass 0  *)
(* stands for the crawl that inserted the document.                        *)
(***************************************************************************)
Updaters == {"nifty_updates", "sumai_updates"}

\* `Contact Number` missing, None or "": all of them falsy and all matched by the query
NoTel == ""

\* what a detail page can show as the agent's number ("tel0": what the crawl stored)
PageTels == {NoTel, "tel1", "tel2"}

\* the site a link points to; "nifty" in link / "pitat" in link
LinkKinds(u) == IF u = "nifty_updates" THEN {"nifty", "pitat"} ELSE {"sumai"}

\* str(property_id) in the folder name of a crawler, property_id = uuid4():
\* the canonical form of the id (8-4-4-4-12 hexadecimal digits)
str_uuid == "canonical"

\* the folder name of an update script for a record whose _id is read back
\* as the bson.Binary the crawl stored: nifty_updates.py converts it,
\* str(UUID(bytes=property_id)); updates/sumai.py takes str(property_id),
\* the str() of a bytes subclass, which is the literal b'...'
property_id_str(u) == IF u = "nifty_updates" THEN str_uuid ELSE "binary"

\* a path is images/<site>/<dir>/<file>.jpg with <dir> the form `dir` of the
\* id of record `id`
CrawledPath(d, k) == [pass |-> 0, id |-> d, k |-> k, dir |-> str_uuid]

\* image_path of save_image(img_url, "{}.jpg".format(uuid4()), folder)
image_path(p, d, k) == [pass |-> p, id |-> d, k |-> k, dir |-> property_id_str(updater)]

\* the images a crawl stored with a document
StoredImages(d) == {<<CrawledPath(d, 1)>>, <<CrawledPath(d, 1), CrawledPath(d, 2)>>}

\* the documents the partition can hold for document id d
Documents(u, d) ==
    [link : LinkKinds(u), images : StoredImages(d), contact : {NoTel, "tel0"}]

\* ThreadPoolExecutor(max_workers=MAX_WORKERS) of the update scripts
UpdateWorkers(u) == IF u = "nifty_updates" THEN 6 ELSE 10

\* the query of main()
query(u, doc) ==
    IF u = "nifty_updates"
    THEN Len(doc.images) = 1 \/ doc.contact = NoTel
    ELSE Len(doc.images) = 1

\* documents = list(collection.find(query))
documents(u) == {d \in DOMAIN collection : query(u, collection[d])}

\* collection.update_one({"_id": property_id}, {"$set": {field: value}}),
\* with every document set instead of the one with that _id
update_one_All(coll, id, field, value) ==
    [i \in DOMAIN coll |-> [coll[i] EXCEPT ![field] = value]]

\* update_one with {"$addToSet": {"images": {"$each": value}}} for the images:
\* the entries of `value` that the stored list lacks are appended to it
update_one_AddToSet(coll, id, field, value) ==
    [coll EXCEPT ![id] =
        [coll[id] EXCEPT ![field] =
            IF field = "images"
            THEN coll[id].images \o
                 SelectSeq(value, LAMBDA x : \A i \in DOMAIN coll[id].images :
                                                coll[id].images[i] # x)
            ELSE value]]

\* collection.update_one({"_id": property_id}, {"$set": {field: value}})
update_one(coll, id, field, value) ==
    [coll EXCEPT ![id] = [coll[id] EXCEPT ![field] = value]]

\* all_images with the existing images left out
all_images_NewOnly(existing_images, new_image_paths) == new_image_paths

\* all_images = existing_images + new_image_paths
all_images(existing_images, new_image_paths) == existing_images \o new_image_paths

\* new_image_paths: one path for each of the n URLs whose download succeeded
\* (saved), in the order of the URLs
RECURSIVE new_image_paths(_, _, _, _)
new_image_paths(p, d, n, saved) ==
    IF n = 0 THEN <<>>
    ELSE new_image_paths(p, d, n - 1, saved) \o
         (IF n \in saved THEN <<image_path(p, d, n)>> ELSE <<>>)

crawlLocals == <<adapter, driver, run, site, pc, page, idx, last, ins_run,
                 clean, signalled, prev>>

\* the number of tasks the runs p, p+1, ... have submitted
RECURSIVE Submitted(_)
Submitted(p) ==
    IF p > MaxPasses THEN 0 ELSE Cardinality(DOMAIN tasks[p]) + Submitted(p + 1)

\* the tasks of a run that a pool worker is executing
Executing(p) == {d \in DOMAIN tasks[p] : tasks[p][d].pc = "images"}

InitBackfill ==
    /\ FetchIdle
    /\ CrawlIdle
    /\ ExtractIdle
    /\ PoolIdle
    /\ TwinIdle
    /\ DiskIdle
    /\ updater \in Updaters
    /\ collection \in [DocIds -> UNION {Documents(updater, d) : d \in DocIds}]
    /\ \A d \in DocIds : collection[d] \in Documents(updater, d)
    /\ pass = [p \in Passes |-> "idle"]
    /\ tasks = [p \in Passes |-> <<>>]
    /\ b_last = [pass |-> 0, id |-> 0, ev |-> "none"]

\* main(): the documents in need of an update are read at once and one
\* process_document(doc) task is submitted for each; no document, no pool
StartPass(p) ==
    /\ pass[p] = "idle"
    /\ \A q \in Passes : q < p => pass[q] # "idle"
    /\ Submitted(1) + Cardinality(documents(updater)) <= MaxTasks
    /\ tasks' = [tasks EXCEPT ![p] =
                    [d \in documents(updater) |->
                        [doc |-> collection[d], pc |-> "fetch", html |-> FALSE,
                         contact |-> NoTel, urls |-> 0, new |-> <<>>]]]
    /\ pass' = [pass EXCEPT ![p] =
                    IF documents(updater) = {} THEN "complete" ELSE "running"]
    /\ b_last' = [pass |-> p, id |-> 0, ev |-> "start"]
    /\ UNCHANGED <<updater, collection, fetchVars, crawlLocals, extractVars, poolVars, twinVars, diskVars>>

\* process_document without its `except Exception`, the exception ending the run
TaskDone_Abort(p, d, ev) ==
    /\ b_last' = [pass |-> p, id |-> d, ev |-> ev]
    /\ pass' = [pass EXCEPT ![p] = IF ev = "raise" THEN "complete" ELSE @]
    /\ UNCHANGED <<updater, fetchVars, crawlLocals, extractVars, poolVars, twinVars, diskVars>>

\* process_document(doc) returns: the task is over
TaskDone(p, d, ev) ==
    /\ b_last' = [pass |-> p, id |-> d, ev |-> ev]
    /\ UNCHANGED <<updater, pass, fetchVars, crawlLocals, extractVars, poolVars, twinVars, diskVars>>

\* what the re-fetch of the link can give: a page with the content looked
\* for, nothing (html falsy, or the content missing: return False), or an
\* exception (requests.post or the JSON of the answer; nifty_updates.py only,
\* fetch_with_backoff of updates/sumai.py catches the request's exceptions)
Refetch(u) == IF u = "nifty_updates" THEN {"ok", "failed", "raise"} ELSE {"ok", "failed"}

\* scrape_additional_data(document), up to and including the contact number;
\* scrape_additional_images(document), up to the images section
ScrapeContact(p, d) ==
    /\ pass[p] = "running"
    /\ d \in DOMAIN tasks[p]
    /\ tasks[p][d].pc = "fetch"
    /\ Cardinality(Executing(p)) < UpdateWorkers(updater)
    /\ LET existing_contact == tasks[p][d].doc.contact
       IN \E html \in Refetch(updater) :
            CASE html = "failed" ->
                   /\ tasks' = [tasks EXCEPT ![p][d].pc = "done"]
                   /\ UNCHANGED collection
                   /\ TaskDone(p, d, "fetch_failed")
              [] html = "raise" ->
                   /\ tasks' = [tasks EXCEPT ![p][d].pc = "done"]
                   /\ UNCHANGED collection
                   /\ TaskDone(p, d, "raise")
              [] html = "ok" /\ (updater = "sumai_updates" \/ existing_contact # NoTel) ->
                   /\ tasks' = [tasks EXCEPT ![p][d].pc = "images", ![p][d].html = TRUE]
                   /\ UNCHANGED collection
                   /\ TaskDone(p, d, "fetched")
              [] OTHER ->
                   \* `if not existing_contact:`; dt.find_next_sibling('dd') may be None
                   \/ /\ tasks' = [tasks EXCEPT ![p][d].pc = "done", ![p][d].html = TRUE]
                      /\ UNCHANGED collection
                      /\ TaskDone(p, d, "raise")
                   \/ \E contact_number \in PageTels :
                        /\ tasks' = [tasks EXCEPT ![p][d].pc = "images",
                                                  ![p][d].html = TRUE,
                                                  ![p][d].contact = contact_number]
                        /\ collection' =
                              IF contact_number # NoTel
                              THEN update_one(collection, d, "contact", contact_number)
                              ELSE collection
                        /\ TaskDone(p, d, IF contact_number # NoTel THEN "contact"
                                                                     ELSE "no_contact")

\* the test without `if len(existing_images) == 1:`
LooksForImages_AnyCount(u, doc) ==
    IF u = "nifty_updates" THEN doc.link = "nifty" ELSE TRUE

\* does the task look for additional images:
\* `if len(existing_images) == 1:` and `if "nifty" in link:` in nifty_updates.py,
\* no condition in updates/sumai.py
LooksForImages(u, doc) ==
    IF u = "nifty_updates" THEN Len(doc.images) = 1 /\ doc.link = "nifty" ELSE TRUE

\* the images part of scrape_additional_data / scrape_additional_images:
\* n additional URLs (the first one skipped), each downloaded by save_image,
\* which returns the path or None; the images field is written if a path is new
ScrapeImages(p, d) ==
    /\ pass[p] = "running"
    /\ d \in DOMAIN tasks[p]
    /\ tasks[p][d].pc = "images"
    /\ LET existing_images == tasks[p][d].doc.images
       IN IF ~LooksForImages(updater, tasks[p][d].doc)
          THEN /\ tasks' = [tasks EXCEPT ![p][d].pc = "done"]
               /\ UNCHANGED collection
               /\ TaskDone(p, d, "no_images")
          ELSE \* img['src'] of a thumbnail without src raises KeyError
               \/ /\ updater = "nifty_updates"
                  /\ tasks' = [tasks EXCEPT ![p][d].pc = "done"]
                  /\ UNCHANGED collection
                  /\ TaskDone(p, d, "raise")
               \/ \E n \in 0..MaxNewImages : \E saved \in SUBSET (1..n) :
                    LET new == new_image_paths(p, d, n, saved)
                    IN /\ tasks' = [tasks EXCEPT ![p][d].pc = "done",
                                                 ![p][d].urls = n,
                                                 ![p][d].new = new]
                       /\ collection' =
                             IF new # <<>>
                             THEN update_one(collection, d, "images",
                                             all_images(existing_images, new))
                             ELSE collection
                       /\ TaskDone(p, d, IF new # <<>> THEN "images" ELSE "no_images")

\* the pool has completed every task: main() returns
EndPass(p) ==
    /\ pass[p] = "running"
    /\ \A d \in DOMAIN tasks[p] : tasks[p][d].pc = "done"
    /\ pass' = [pass EXCEPT ![p] = "complete"]
    /\ b_last' = [pass |-> p, id |-> 0, ev |-> "end"]
    /\ UNCHANGED <<updater, collection, tasks, fetchVars, crawlLocals, extractVars, poolVars, twinVars, diskVars>>

NextBackfill ==
    \/ \E p \in Passes : StartPass(p)
    \/ \E p \in Passes : \E d \in DocIds : ScrapeContact(p, d)
    \/ \E p \in Passes : \E d \in DocIds : ScrapeImages(p, d)
    \/ \E p \in Passes : EndPass(p)

SpecBackfill == InitBackfill /\ [][NextBackfill]_vars

IsPrefix(s, t) == Len(s) <= Len(t) /\ SubSeq(t, 1, Len(s)) = s

NoDuplicates(s) == \A i, j \in DOMAIN s : i # j => s[i] # s[j]

\* the tasks of run p whose document no other run of the script has a task for
Disjoint(p) == {d \in DOMAIN tasks[p] : \A q \in Passes \ {p} : d \notin DOMAIN tasks[q]}

(***************************************************************************)
(* C5: concurrent backfill workers on disjoint records never lose an       *)
(* update.  Under every interleaving of the pool's workers, once the pool  *)
(* has completed, every matched record whose re-fetch succeeded shows the  *)
(* contact number found for it (if it had none) and the new images saved   *)
(* for it, appended once after the images it had; no image entry occurs    *)
(* twice.                                                                  *)
(***************************************************************************)
C5_NoLostUpdate ==
    \A p \in Passes :
        pass[p] = "complete" =>
            \A d \in Disjoint(p) :
                LET t == tasks[p][d]
                IN t.html =>
                     /\ collection[d].contact =
                           IF t.contact # NoTel THEN t.contact ELSE t.doc.contact
                     /\ collection[d].images = t.doc.images \o t.new
                     /\ NoDuplicates(collection[d].images)
                     /\ collection[d].link = t.doc.link

\* one run of nifty_updates.py over two records is complete: the first got
\* its contact number, the second its two additional images
C5_Witness ==
    /\ pass[1] = "complete" /\ pass[2] = "idle"
    /\ DOMAIN tasks[1] = {1, 2}
    /\ tasks[1][1].contact # NoTel
    /\ collection[1].contact = tasks[1][1].contact
    /\ Len(tasks[1][2].new) = 2
    /\ Len(collection[2].images) = 3

(***************************************************************************)
(* C6: for every record and every step of a backfill worker, the images    *)
(* list before the step is a prefix of the images list after it, a         *)
(* Contact Number that is not empty is not changed, and no other field of  *)
(* the record is modified or removed.                                      *)
(***************************************************************************)
C6_StepOnlyAdds ==
    [][\A d \in DOMAIN collection :
          /\ IsPrefix(collection[d].images, collection'[d].images)
          /\ collection[d].contact # NoTel => collection'[d].contact = collection[d].contact
          /\ collection'[d].link = collection[d].link]_vars

\* the images step of the task of run p for document d, the document read
\* with exactly one image and the detail page showing n additional URLs
ImagesStep(p, d, n) ==
    /\ d \in DOMAIN tasks[p]
    /\ tasks[p][d].pc = "images"
    /\ tasks'[p][d].pc = "done"
    /\ Len(tasks[p][d].doc.images) = 1
    /\ tasks'[p][d].urls = n

(***************************************************************************)
(* C7: given a stored record with exactly one image and a reachable link,  *)
(* a backfill pass that finds two additional image URLs on the detail page *)
(* leaves the record with an images list of length three whose first       *)
(* element is the original image.                                          *)
(***************************************************************************)
C7_TwoUrlsMakeThree ==
    [][\A p \in Passes : \A d \in DocIds :
          ImagesStep(p, d, 2) =>
              /\ Len(collection'[d].images) = 3
              /\ collection'[d].images[1] = tasks[p][d].doc.images[1]]_vars

\* C7, as the code has it: the images list becomes the original image
\* followed by one path for each of the two URLs whose download succeeded
\* (length three when both succeed); when no download succeeds the record
\* is not written.
C7_SavedUrlsAppended ==
    [][\A p \in Passes : \A d \in DocIds :
          ImagesStep(p, d, 2) =>
              LET new == tasks'[p][d].new
              IN /\ Len(new) <= 2
                 /\ new # <<>> =>
                       /\ collection'[d].images = tasks[p][d].doc.images \o new
                       /\ Len(collection'[d].images) = 1 + Len(new)
                       /\ collection'[d].images[1] = tasks[p][d].doc.images[1]
                 /\ new = <<>> => collection'[d] = collection[d]]_vars

\* a task has found two URLs, saved both and written three images
C7_Witness ==
    \E p \in Passes : \E d \in DOMAIN tasks[p] :
        /\ tasks[p][d].pc = "done"
        /\ tasks[p][d].urls = 2
        /\ Len(tasks[p][d].new) = 2
        /\ Len(tasks[p][d].doc.images) = 1
        /\ collection[d].images = tasks[p][d].doc.images \o tasks[p][d].new
        /\ b_last = [pass |-> p, id |-> d, ev |-> "images"]

(***************************************************************************)
(* C11: in every adapter the page loop of a sub-scope ends in the          *)
(* iteration in which scrape_page reports an empty page or, in the         *)
(* stop-on-duplicate adapters, a known link: no page with a higher number  *)
(* is fetched afterwards.                                                  *)
(***************************************************************************)
C11_StopSignalEndsLoop ==
    [][\A s \in Scopes :
          ( /\ last'.scope = s
            /\ \/ last'.ev = "empty"
               \/ last'.ev = "duplicate" /\ StopOnDuplicate(adapter) ) =>
              /\ pc'[s] = "done"
              /\ page'[s] = page[s]]_vars

\* C11, as the code has it: the stop-on-duplicate adapters end the loop on
\* either signal; sumai.py goes on to the next page after an empty page
C11_StopSignalEndsLoopButSumai ==
    [][\A s \in Scopes :
          ( /\ last'.scope = s
            /\ \/ last'.ev = "empty"
               \/ last'.ev = "duplicate" /\ StopOnDuplicate(adapter) ) =>
              IF adapter = "sumai"
                 THEN pc'[s] = "index" /\ page'[s] = page[s] + 1
                 ELSE pc'[s] = "done" /\ page'[s] = page[s]]_vars

\* The pool runs every submitted task and main() waits for all of them
\* (`with ThreadPoolExecutor(...)`, as_completed); each fetch is taken to
\* return.
SpecBackfillFair ==
    /\ SpecBackfill
    /\ \A p \in Passes : WF_vars(EndPass(p))
    /\ \A p \in Passes : \A d \in DocIds :
          WF_vars(ScrapeContact(p, d)) /\ WF_vars(ScrapeImages(p, d))

\* process_document(doc) of run p for document d has ended with its
\* `except Exception` in this step
Caught(p, d) == b_last' = [pass |-> p, id |-> d, ev |-> "raise"]

(***************************************************************************)
(* C12: in a backfill pass every selected record is dispatched to the pool *)
(* exactly once (one task for each document the query matched, and a task  *)
(* that is over is not run again); an exception raised while one record is *)
(* processed ends that task only: the other tasks and the run are left as  *)
(* they are, every selected record is processed and the batch completes.   *)
(***************************************************************************)
C12_ExceptionCaughtAtWorker ==
    /\ [][\A p \in Passes :
             /\ (pass[p] = "idle" /\ pass'[p] # "idle") =>
                    DOMAIN tasks'[p] = {d \in DocIds : query(updater, collection[d])}
             /\ \A d \in DOMAIN tasks[p] :
                    /\ tasks[p][d].pc = "done" => tasks'[p][d] = tasks[p][d]
                    /\ Caught(p, d) =>
                          /\ tasks[p][d].pc # "done" /\ tasks'[p][d].pc = "done"
                          /\ pass' = pass
                          /\ collection' = collection
                          /\ \A q \in Passes : \A e \in DOMAIN tasks[q] :
                                <<q, e>> # <<p, d>> => tasks'[q][e] = tasks[q][e]]_vars
    /\ [](\A p \in Passes :
             pass[p] = "complete" => \A d \in DOMAIN tasks[p] : tasks[p][d].pc = "done")
    /\ \A p \in Passes : (pass[p] = "running") ~> (pass[p] = "complete")

\* a task has just ended with an exception while a pool worker is in the
\* middle of another record of the same run
C12_Witness ==
    /\ b_last.ev = "raise"
    /\ pass[b_last.pass] = "running"
    /\ tasks[b_last.pass][b_last.id].pc = "done"
    /\ \E e \in DOMAIN tasks[b_last.pass] :
          e # b_last.id /\ tasks[b_last.pass][e].pc = "images"

\* the adapters that translate source labels through a static table of
\* helpers.py, whose lookup raises KeyError for a label that is not in it:
\* nifty.py (get_property_type, get_area_label), sumai.py (get_table_field_english)
UsesLabelTable(a) == a \in {"nifty", "sumai"}

(***************************************************************************)
(* C13: a source label that is not in the static label-mapping table       *)
(* raises an error that no crawl driver catches: the run halts instead of  *)
(* continuing with later listings, pages or sub-scopes.                    *)
(***************************************************************************)
C13_UnknownLabelHaltsRun ==
    [][\A s \in Scopes :
          ( /\ UsesLabelTable(adapter)
            /\ pc[s] = "gate"
            /\ last'.ev = "raise" /\ last'.scope = s ) =>
              driver' = "crashed"]_vars

\* C13, as the code has it: the KeyError is caught by the page loop, which
\* ends the sub-scope (nifty.py) or goes on with the next page (sumai.py);
\* the run goes on
C13_UnknownLabelCaught ==
    [][\A s \in Scopes :
          ( /\ UsesLabelTable(adapter)
            /\ pc[s] = "gate"
            /\ last'.ev = "raise" /\ last'.scope = s ) =>
              /\ driver' = "running"
              /\ IF adapter = "sumai"
                    THEN pc'[s] = "index" /\ page'[s] = page[s] + 1
                    ELSE pc'[s] = "done"
              /\ OthersUntouched(s)]_vars

(***************************************************************************)
(* Normalisation of one listing: scrape_page's loop body and helpers.py    *)
(*                                                                         *)
(* A string is the sequence of its characters. A number is the sequence of *)
(* its decimal digits (a numeral), so that amounts of any size are exact.  *)
(***************************************************************************)
\* Values carry their Python type: None, a str (its characters), a float
None == [type |-> "NoneType"]

Str(chars) == [type |-> "str", v |-> chars]

\* an int, v its numeral
IntOf(ds) == [type |-> "int", v |-> ds]

\* `if value:` for a str or None
Truthy(value) == value.type = "str" /\ value.v # <<>>

Digit == <<"0", "1", "2", "3", "4", "5", "6", "7", "8", "9">>

DigitVal(c) == (CHOOSE i \in 1..10 : Digit[i] = c) - 1

IsDigit(c) == \E i \in 1..10 : Digit[i] = c

RECURSIVE replace(_, _)
\* text.replace(old, ''): the characters of text other than old
replace(text, old) ==
    IF text = <<>> THEN <<>>
    ELSE (IF Head(text) = old THEN <<>> ELSE <<Head(text)>>) \o replace(Tail(text), old)

Upper == <<"A","B","C","D","E","F","G","H","I","J","K","L","M",
           "N","O","P","Q","R","S","T","U","V","W","X","Y","Z">>

Lower == <<"a","b","c","d","e","f","g","h","i","j","k","l","m",
           "n","o","p","q","r","s","t","u","v","w","x","y","z">>

\* str.lower() of one character
lower_char(c) ==
    IF \E i \in 1..26 : Upper[i] = c
       THEN Lower[CHOOSE i \in 1..26 : Upper[i] = c]
       ELSE c

\* text.lower()
lower(text) == [i \in DOMAIN text |-> lower_char(text[i])]

RECURSIVE lstrip(_)
lstrip(text) ==
    IF text # <<>> /\ Head(text) = " " THEN lstrip(Tail(text)) ELSE text

RECURSIVE rstrip(_)
rstrip(text) ==
    IF text # <<>> /\ text[Len(text)] = " "
       THEN rstrip(SubSeq(text, 1, Len(text) - 1))
       ELSE text

\* text.strip()
strip(text) == rstrip(lstrip(text))

RECURSIVE split(_, _)
\* text.split(sep): the parts of text between the occurrences of sep
\* ("".split(",") is [""])
split(text, sep) ==
    IF \E i \in DOMAIN text : text[i] = sep
       THEN LET i == CHOOSE k \in DOMAIN text :
                         text[k] = sep /\ \A j \in 1..(k - 1) : text[j] # sep
            IN <<SubSeq(text, 1, i - 1)>> \o split(SubSeq(text, i + 1, Len(text)), sep)
       ELSE <<text>>

RECURSIVE Canonical(_)
\* the numeral without leading zeros
Canonical(ds) ==
    IF Len(ds) > 1 /\ Head(ds) = "0" THEN Canonical(Tail(ds)) ELSE ds

\* a < b, for canonical numerals
RECURSIVE LexLess(_, _)
LexLess(a, b) ==
    IF a = <<>> THEN FALSE
    ELSE \/ DigitVal(Head(a)) < DigitVal(Head(b))
         \/ Head(a) = Head(b) /\ LexLess(Tail(a), Tail(b))

Less(a, b) == Len(a) < Len(b) \/ (Len(a) = Len(b) /\ LexLess(a, b))

RECURSIVE Succ(_)
\* the numeral of ds + 1
Succ(ds) ==
    IF ds = <<>> THEN <<"1">>
    ELSE LET init == SubSeq(ds, 1, Len(ds) - 1)
             v == DigitVal(ds[Len(ds)])
         IN IF v < 9 THEN Append(init, Digit[v + 2]) ELSE Append(Succ(init), "0")

\* the numeral of ds - 1, for ds odd
PredOfOdd(ds) ==
    [ds EXCEPT ![Len(ds)] = Digit[DigitVal(ds[Len(ds)])]]

\* ds modulo 4 (100 is a multiple of 4)
Mod4(ds) ==
    LET u == DigitVal(ds[Len(ds)])
        t == IF Len(ds) > 1 THEN DigitVal(ds[Len(ds) - 1]) ELSE 0
    IN (10 * t + u) % 4

RECURSIVE Zeros(_)
Zeros(k) == IF k = 0 THEN <<>> ELSE <<"0">> \o Zeros(k - 1)

\* the numeral of ds * 10^k
TimesPow10(ds, k) == Canonical(ds \o Zeros(k))

\* 2^53: a Python float (IEEE 754 double) has a 53 bit significand
TwoPow53 == <<"9","0","0","7","1","9","9","2","5","4","7","4","0","9","9","2">>

\* The float nearest to the integer ds, ties to the even significand: exact
\* up to 2^53, the nearest multiple of 2 between 2^53 and 2^54 (beyond
\* 2^54, where the inputs of the model do not go, the spacing widens).
Float(ds) ==
    IF ~Less(TwoPow53, ds) \/ Mod4(ds) \in {0, 2} THEN ds
    ELSE IF Mod4(ds) = 1 THEN PredOfOdd(ds) ELSE Succ(ds)

StartsWith(text, w) == Len(text) >= Len(w) /\ SubSeq(text, 1, Len(w)) = w

Drop(text, k) == SubSeq(text, k + 1, Len(text))

million == <<"m","i","l","l","i","o","n">>

thousand == <<"t","h","o","u","s","a","n","d">>

yen == <<"y","e","n">>

\* `\s*(million|thousand)?\s*yen` at the start of rest: the unit matched
\* ("" when the group is absent), or "no match"
MatchUnitYen(rest) ==
    LET r == lstrip(rest)
    IN CASE StartsWith(r, million) /\ StartsWith(lstrip(Drop(r, 7)), yen) -> "million"
         [] StartsWith(r, thousand) /\ StartsWith(lstrip(Drop(r, 8)), yen) -> "thousand"
         [] StartsWith(r, yen) -> ""
         [] OTHER -> "no match"

\* `[\d.]`
IsNumberChar(c) == IsDigit(c) \/ c = "."

\* the end of the longest run of `[\d.]` that starts at position i
RunEnd(text, i) ==
    CHOOSE j \in i..Len(text) :
        /\ \A k \in i..j : IsNumberChar(text[k])
        /\ j = Len(text) \/ ~IsNumberChar(text[j + 1])

\* does `([\d.]+)\s*(million|thousand)?\s*yen` match at position i (the
\* character after group 1 is no `[\d.]`, so group 1 is the whole run)
MatchesAt(text, i) ==
    /\ IsNumberChar(text[i])
    /\ MatchUnitYen(Drop(text, RunEnd(text, i))) # "no match"

\* re.search(r'([\d.]+)\s*(million|thousand)?\s*yen', cleaned): None, or the
\* leftmost match [group1, group2]
re_search(cleaned) ==
    IF \E i \in DOMAIN cleaned : MatchesAt(cleaned, i)
       THEN LET i == CHOOSE k \in DOMAIN cleaned :
                         MatchesAt(cleaned, k) /\ \A j \in 1..(k - 1) : ~MatchesAt(cleaned, j)
            IN [group1 |-> SubSeq(cleaned, i, RunEnd(cleaned, i)),
                group2 |-> MatchUnitYen(Drop(cleaned, RunEnd(cleaned, i)))]
       ELSE None

\* extract_yen_amount with the commas left in the text
extract_yen_amount_KeepCommas(text) ==
    LET match == re_search(lower(text))
    IN IF match = None THEN None
       ELSE LET number == Float(Canonical(match.group1))
            IN CASE match.group2 = "million" -> IntOf(Float(TimesPow10(number, 6)))
                 [] match.group2 = "thousand" -> IntOf(Float(TimesPow10(number, 3)))
                 [] OTHER -> IntOf(number)

\* extract_yen_amount(text): None, or int(number) for
\* number = float(group 1) [* 1_000_000 | * 1_000]; group 1 an integer numeral
extract_yen_amount(text) ==
    LET match == re_search(replace(lower(text), ","))
    IN IF match = None THEN None
       ELSE LET number == Float(Canonical(match.group1))
            IN CASE match.group2 = "million" -> IntOf(Float(TimesPow10(number, 6)))
                 [] match.group2 = "thousand" -> IntOf(Float(TimesPow10(number, 3)))
                 [] OTHER -> IntOf(number)

\* c.convert(yen, 'JPY', 'USD') of the CurrencyConverter, rounded to cents:
\* a float that depends on the amount converted and on the day's rate
Usd(amount) == [type |-> "float", v |-> [convert |-> amount, from |-> "JPY", to |-> "USD"]]

\* an exception raised by the evaluation of an expression
Raised(exception) == [type |-> "raise", v |-> exception]

\* convert_to_usd with the text handed back as it came
convert_to_usd_Identity(yen_text) == yen_text

\* convert_to_usd(yen_text): text.lower() of None raises AttributeError,
\* c.convert(None, ...) raises TypeError
convert_to_usd(yen_text) ==
    IF yen_text.type # "str" THEN Raised("AttributeError")
    ELSE LET amount == extract_yen_amount(yen_text.v)
         IN IF amount = None THEN Raised("TypeError") ELSE Usd(amount)

\* images a listing can show
MaxImages == 2

\* characters of a Property Location
MaxLocLen == 4

LocChars == {"T", " ", ","}

RECURSIVE Strings(_, _)
\* the strings of at most n characters of alphabet
Strings(alphabet, n) ==
    IF n = 0 THEN {<<>>}
    ELSE LET shorter == Strings(alphabet, n - 1)
         IN shorter \cup {Append(t, c) : t \in shorter, c \in alphabet}

\* a table row that the page does not have
Absent == [type |-> "absent"]

\* the Property Location of a listing, as translated
Locations == {Str(t) : t \in Strings(LocChars, MaxLocLen)} \cup {Absent}

\* "<n>", with or without thousands separators
SmallNumbers == {<<"0">>, <<"7">>, <<"3","0">>, <<"1",",","5","0","0">>}

\* 2^53 - 1, 2^53, 2^53 + 1, 2^53 + 3
BigNumbers ==
    {<<"9","0","0","7","1","9","9","2","5","4","7","4","0","9","9","1">>,
     TwoPow53,
     <<"9","0","0","7","1","9","9","2","5","4","7","4","0","9","9","3">>,
     <<"9","0","0","7","1","9","9","2","5","4","7","4","0","9","9","5">>}

UnitWords == {<<>>, million, <<"M","i","l","l","i","o","n">>, thousand}

YenWords == {yen, <<"Y","e","n">>}

\* the text "<n> <unit> yen"
AmountText(n, unit, y) ==
    n \o (IF unit = <<>> THEN <<>> ELSE <<" ">> \o unit) \o <<" ">> \o y

\* the amounts a price text can state: [n, unit, y]; the large ones in yen
Amounts ==
    [n : SmallNumbers, unit : UnitWords, y : YenWords]
        \cup [n : BigNumbers, unit : {<<>>}, y : YenWords]

\* the price of a listing, as translated: an amount, a text without amount
\* ("ask"), the empty string
PriceTexts ==
    {Str(AmountText(a.n, a.unit, a.y)) : a \in Amounts} \cup {Str(<<"a","s","k">>), Str(<<>>)}

\* what the markup gives as price: hatomark.py leaves price = None when the
\* info block is missing; a sumai.py table may have no 売買価格 row
PricesOf(a) ==
    PriceTexts \cup (IF a = "hatomark" THEN {None} ELSE {})
               \cup (IF a = "sumai" THEN {Absent} ELSE {})

\* sumai.py reads the location from the listing's table; the prefecture of
\* the others is the sub-scope crawled
LocationsOf(a) == IF a = "sumai" THEN Locations ELSE {Str(<<"T">>)}

\* how many image URLs the listing resolves to: sumai.py takes the first
\* image only (`break`), nifty_rentals.py the main image and one more
UrlCounts(a) ==
    CASE a = "sumai" -> 0..1
      [] a = "nifty_rentals" -> 1..2
      [] OTHER -> 0..MaxImages

\* the k image elements of a page that shows k different images, each once,
\* in the order of their data-index
PlainElements(n) == [k \in 1..n |-> [src |-> k, index |-> k - 1]]

\* the markup of one listing and the outcome of its downloads: `saved` holds
\* the calls of save_image (first, second, ...) that succeed
Inputs(a) ==
    UNION {{[price |-> p, location |-> l, elements |-> PlainElements(n), saved |-> ok] :
               p \in PricesOf(a), l \in LocationsOf(a), ok \in SUBSET (1..n)} :
           n \in UrlCounts(a)}

\* the image URLs of a site
Urls == 1..MaxImages

\* the data-index values of the slick-img elements of a hatomark page
DataIndexes == 0..(MaxImages - 1)

\* an image element of a detail page: its URL (src / href / data-src) and,
\* in hatomark.py, the data-index of the div around it. (A div without
\* data-index or without img is passed over by hatomark.py: it is left out.)
Elements(a) ==
    IF a = "hatomark" THEN [src : Urls, index : DataIndexes]
                      ELSE [src : Urls, index : {0}]

\* the image elements of a detail page, in document order; nifty_rentals.py
\* has the main image of the building and at most one image of the flat
ElementLists(a) ==
    UNION {[1..n -> Elements(a)] :
              n \in (IF a = "nifty_rentals" THEN 1..2 ELSE 0..MaxImages)}

\* `if src not in seen: seen.add(src); img_urls.append(src)`
RECURSIVE UniqueSrc(_)
UniqueSrc(elements) ==
    IF elements = <<>> THEN <<>>
    ELSE LET n == Len(elements)
             before == UniqueSrc(SubSeq(elements, 1, n - 1))
         IN IF \E k \in DOMAIN before : before[k].src = elements[n].src
               THEN before
               ELSE Append(before, elements[n])

\* list(dict.fromkeys(images)): the first of equal (data_index, src) pairs
RECURSIVE fromkeys(_)
fromkeys(images) ==
    IF images = <<>> THEN <<>>
    ELSE LET n == Len(images)
             before == fromkeys(SubSeq(images, 1, n - 1))
         IN IF \E k \in DOMAIN before : before[k] = images[n]
               THEN before
               ELSE Append(before, images[n])

\* the images left in the order of the document
sorted_DocumentOrder(unique_images) == unique_images

\* sorted(unique_images, key=lambda x: x[0]): by data-index, equal ones in
\* the order they had (the sort is stable)
RECURSIVE sorted(_)
sorted(unique_images) ==
    IF unique_images = <<>> THEN <<>>
    ELSE LET n == Len(unique_images)
             x == unique_images[n]
             before == sorted(SubSeq(unique_images, 1, n - 1))
         IN SelectSeq(before, LAMBDA y : y.index <= x.index)
              \o <<x>>
              \o SelectSeq(before, LAMBDA y : y.index > x.index)

\* The image elements whose URL is downloaded, in download order:
\*   nifty.py          the thumbnails, a src seen before left out
\*   hatomark.py       the (data_index, src) pairs, equal pairs once, sorted
\*   sumai.py          the first image only (`break`)
\*   nifty_rentals.py  the main image, then the image of the flat
image_urls(a, elements) ==
    CASE a = "nifty" -> UniqueSrc(elements)
      [] a = "hatomark" -> sorted(fromkeys(elements))
      [] a = "sumai" -> SubSeq(elements, 1, IF Len(elements) > 0 THEN 1 ELSE 0)
      [] a = "nifty_rentals" -> elements

\* save_image with its `try` left out: a failing download raises
save_image_Raising(k, ok) == IF ok THEN CrawledPath(1, k) ELSE Raised("Exception")

\* save_image(image_url, filename, folder) of the k-th download: the path,
\* or None when the download fails (non-200 status, or an exception, which
\* its `except Exception` catches)
save_image(k, ok) == IF ok THEN CrawledPath(1, k) ELSE None

\* the loop over the image URLs left after the first of them
LoopEnded_AfterFirst(paths, urls) == Len(paths) >= 1 \/ Len(urls) = 0

\* `for img in img_urls` has gone through every URL
LoopEnded(paths, urls) == Len(paths) = Len(urls)

\* listing_data[field] = value
SetField(data, field, value) ==
    (field :> value) @@ [f \in DOMAIN data \ {field} |-> data[f]]

Has(data, field) == field \in DOMAIN data

extractRest == <<fetchVars, crawlLocals, backfillVars, poolVars, twinVars, diskVars>>

InitExtract ==
    /\ FetchIdle
    /\ CrawlIdle
    /\ BackfillIdle
    /\ PoolIdle
    /\ TwinIdle
    /\ DiskIdle
    /\ collection = <<>>
    /\ e_adapter \in Adapters
    /\ e_input \in Inputs(e_adapter)
    /\ e_pc = "fields"
    /\ listing_data = <<>>
    /\ img_urls = <<>>
    /\ image_paths = <<>>

\* the fields of the listing, from `listing_data["link"] = link` to the
\* images. nifty.py and hatomark.py convert the price here; sumai.py copies
\* the rows of the listing's table.
ExtractFields ==
    /\ e_pc = "fields"
    /\ CASE e_adapter \in {"nifty", "hatomark"} ->
              LET usd == convert_to_usd(e_input.price)
              IN IF usd.type = "raise"
                    THEN e_pc' = "raised" /\ listing_data' = [link |-> Str(<<"L">>)]
                    ELSE /\ e_pc' = "images"
                         /\ listing_data' =
                               SetField(SetField(SetField([link |-> Str(<<"L">>)],
                                   "Sale Price", usd),
                                   "Sale Price Yen", e_input.price),
                                   "Property Location", e_input.location)
         [] e_adapter = "sumai" ->
              LET with_price ==
                      IF e_input.price = Absent THEN [link |-> Str(<<"L">>)]
                      ELSE SetField([link |-> Str(<<"L">>)], "Sale Price", e_input.price)
              IN /\ e_pc' = "images"
                 /\ listing_data' =
                       IF e_input.location = Absent THEN with_price
                       ELSE SetField(with_price, "Property Location", e_input.location)
         [] e_adapter = "nifty_rentals" ->
              /\ e_pc' = "images"
              /\ listing_data' =
                    SetField(SetField([link |-> Str(<<"L">>)],
                        "Rental Price", e_input.price),
                        "Property Location", e_input.location)
    /\ UNCHANGED <<e_adapter, e_input, img_urls, image_paths, collection, extractRest>>

\* `# Get the images`: the image elements of the page are collected
\* (and, in nifty.py and hatomark.py, deduplicated and put in order)
ResolveImages ==
    /\ e_pc = "images"
    /\ img_urls' = image_urls(e_adapter, e_input.elements)
    /\ image_paths' = <<>>
    /\ e_pc' = "download"
    /\ UNCHANGED <<e_adapter, e_input, listing_data, collection, extractRest>>

\* one turn of `for img in img_urls`:
\*   image_path = save_image(img, file_name, folder)
\*   image_paths.append(image_path)
SaveImage ==
    /\ e_pc = "download"
    /\ ~LoopEnded(image_paths, img_urls)
    /\ LET k == Len(image_paths) + 1
           saved == save_image(k, k \in e_input.saved)
       IN IF saved = Raised("Exception")
             THEN e_pc' = "raised" /\ UNCHANGED image_paths
             ELSE e_pc' = e_pc /\ image_paths' = Append(image_paths, saved)
    /\ UNCHANGED <<e_adapter, e_input, listing_data, img_urls, collection, extractRest>>

\* listing_data["images"] = image_paths
AcquireImages ==
    /\ e_pc = "download"
    /\ LoopEnded(image_paths, img_urls)
    /\ listing_data' = SetField(listing_data, "images", image_paths)
    /\ e_pc' = IF e_adapter = "sumai" THEN "price" ELSE "insert"
    /\ UNCHANGED <<e_adapter, e_input, img_urls, image_paths, collection, extractRest>>

\* sumai.py, `# Update the sale price`
UpdateSalePrice ==
    /\ e_pc = "price"
    /\ IF Has(listing_data, "Sale Price") /\ Truthy(listing_data["Sale Price"])
          THEN LET usd == convert_to_usd(listing_data["Sale Price"])
               IN IF usd.type = "raise"
                     THEN /\ e_pc' = "raised"
                          /\ listing_data' =
                                SetField(listing_data, "Sale Price Yen",
                                         listing_data["Sale Price"])
                     ELSE /\ e_pc' = "prefecture"
                          /\ listing_data' =
                                SetField(SetField(listing_data,
                                    "Sale Price Yen", listing_data["Sale Price"]),
                                    "Sale Price", usd)
          ELSE e_pc' = "prefecture" /\ UNCHANGED listing_data
    /\ UNCHANGED <<e_adapter, e_input, img_urls, image_paths, collection, extractRest>>

\* sumai.py, `# Store the prefecture separately`
StorePrefecture ==
    /\ e_pc = "prefecture"
    /\ IF Has(listing_data, "Property Location")
             /\ Truthy(listing_data["Property Location"])
          THEN LET loc_parts == split(listing_data["Property Location"].v, ",")
               IN IF Len(loc_parts) > 2
                     THEN listing_data' =
                             SetField(listing_data, "Prefecture",
                                      Str(lower(strip(loc_parts[Len(loc_parts)]))))
                     ELSE UNCHANGED listing_data
          ELSE UNCHANGED listing_data
    /\ e_pc' = "insert"
    /\ UNCHANGED <<e_adapter, e_input, img_urls, image_paths, collection, extractRest>>

\* listing_data["createdAt"] = ...; collection.insert_one(listing_data).
\* sumai.py: datetime.now(datetime.timezone.utc) raises AttributeError.
InsertOne ==
    /\ e_pc = "insert"
    /\ IF e_adapter = "sumai"
          THEN e_pc' = "raised" /\ UNCHANGED collection
          ELSE e_pc' = "done" /\ collection' = Append(collection, listing_data)
    /\ UNCHANGED <<e_adapter, e_input, listing_data, img_urls, image_paths, extractRest>>

NextExtract ==
    \/ ExtractFields
    \/ ResolveImages
    \/ SaveImage
    \/ AcquireImages
    \/ UpdateSalePrice
    \/ StorePrefecture
    \/ InsertOne

SpecExtract == InitExtract /\ [][NextExtract]_vars

(***************************************************************************)
(* C14: in every record of every partition the images field is a sequence  *)
(* of stored image paths only: an image whose download failed contributes  *)
(* no entry (no null element), and the entries are in the order in which   *)
(* the listing's images were resolved.                                     *)
(***************************************************************************)
C14_ImagesArePathsOnly ==
    \A i \in DOMAIN collection :
        LET images == collection[i]["images"]
        IN /\ \A k \in DOMAIN images : images[k] # None
           /\ \A j, k \in DOMAIN images : j < k => images[j].k < images[k].k

\* C14, as the code has it: one entry for each resolved URL, in their
\* order, the entry being None where the download failed
C14_OneEntryPerUrl ==
    \A i \in DOMAIN collection :
        LET images == collection[i]["images"]
        IN /\ Len(images) = Len(img_urls)
           /\ \A k \in DOMAIN images :
                 images[k] = IF k \in e_input.saved THEN CrawledPath(1, k) ELSE None

(***************************************************************************)
(* C15: every inserted record that has a Sale Price field holds a numeric  *)
(* value in it, and then also has a Sale Price Yen field holding the       *)
(* original display string.                                                *)
(***************************************************************************)
C15_SalePriceNumeric ==
    \A i \in DOMAIN collection :
        Has(collection[i], "Sale Price") =>
            /\ collection[i]["Sale Price"].type = "float"
            /\ Has(collection[i], "Sale Price Yen")
            /\ collection[i]["Sale Price Yen"].type = "str"
            /\ collection[i]["Sale Price Yen"] = e_input.price

\* a listing priced "30 million yen" has been inserted
C15_Witness ==
    /\ e_input.price = Str(AmountText(<<"3", "0">>, million, yen))
    /\ Len(collection) = 1
    /\ collection[1]["Sale Price"].type = "float"
    /\ collection[1]["Sale Price Yen"] = e_input.price

\* StorePrefecture has just run on a record whose Property Location has at
\* least n comma-separated segments
PrefectureStep(n) ==
    /\ e_pc = "prefecture" /\ e_pc' = "insert"
    /\ Has(listing_data, "Property Location")
    /\ Len(split(listing_data["Property Location"].v, ",")) >= n

\* the last comma-separated segment, trimmed and lower-cased
LastSegment(location) ==
    LET loc_parts == split(location.v, ",")
    IN Str(lower(strip(loc_parts[Len(loc_parts)])))

(***************************************************************************)
(* C16: for a record whose Property Location is a comma-separated string   *)
(* with at least two segments, the derived Prefecture equals the last      *)
(* segment, trimmed and lower-cased ("Shibuya, Tokyo" gives "tokyo").      *)
(***************************************************************************)
C16_PrefectureIsLastSegment ==
    [][PrefectureStep(2) =>
          /\ Has(listing_data', "Prefecture")
          /\ listing_data'["Prefecture"] = LastSegment(listing_data["Property Location"])]_vars

\* C16, as the code has it (`if len(loc_parts) > 2`): the Prefecture is
\* derived from three segments on; with two segments or one the record gets
\* no Prefecture field
C16_PrefectureFromThreeSegments ==
    [][/\ PrefectureStep(3) =>
             /\ Has(listing_data', "Prefecture")
             /\ listing_data'["Prefecture"] = LastSegment(listing_data["Property Location"])
       /\ (PrefectureStep(1) /\ ~PrefectureStep(3)) => ~Has(listing_data', "Prefecture")]_vars

\* the amount of "<n> million yen", "<n> thousand yen", "<n> yen"
StatedAmount(a) ==
    TimesPow10(Canonical(replace(a.n, ",")),
               CASE lower(a.unit) = million -> 6
                 [] lower(a.unit) = thousand -> 3
                 [] OTHER -> 0)

\* the price text states the amount a, and it has been converted
Converted(a) ==
    /\ e_input.price = Str(AmountText(a.n, a.unit, a.y))
    /\ Has(listing_data, "Sale Price")
    /\ listing_data["Sale Price"].type = "float"

NumThreads == 2

\* items submitted to the pool
NumItems == 3

Programs == {"nifty", "hatomark", "nifty_updates", "sumai_updates", "cleanup"}

MainThread == 0

Workers == 1..NumThreads

Threads == {MainThread} \cup Workers

\* the scripts that define get_db_connection() and call it in the worker
HasThreadLocal(prog) == prog # "cleanup"

\* `if not hasattr(thread_local, 'client')`
hasattr(t) == thread_local[t] # 0

\* get_db_connection() called by thread t: constructs a MongoClient when the
\* thread has none yet, and returns the thread's own
get_db_connection(t) ==
    IF hasattr(t)
       THEN [handles |-> handles, thread_local |-> thread_local,
             collection |-> thread_local[t]]
       ELSE [handles |-> Append(handles, t),
             thread_local |-> [thread_local EXCEPT ![t] = Len(handles) + 1],
             collection |-> Len(handles) + 1]

\* the module-level `client` (`db`, `collection`), constructed at import
ModuleClient == 1

InitPool ==
    /\ TwinIdle
    /\ DiskIdle
    /\ FetchIdle
    /\ CrawlIdle
    /\ BackfillIdle
    /\ ExtractIdle
    /\ collection = <<>>
    /\ program \in Programs
    /\ handles = <<MainThread>>
    /\ thread_local = [t \in Threads |-> 0]
    /\ item = [t \in Workers |-> 0]
    /\ thread_collection = [t \in Workers |-> 0]
    /\ pending = 0
    /\ ops = {}

poolRest == <<fetchVars, crawlVars, backfillVars, extractVars, twinVars, diskVars>>

\* main(): executor.submit(...) for every item (prefecture or document)
Submit(n) ==
    /\ pending = 0
    /\ \A t \in Workers : item[t] = 0
    /\ ops = {}
    /\ pending' = n
    /\ UNCHANGED <<program, handles, thread_local, item, thread_collection, ops>>
    /\ UNCHANGED poolRest

\* a free worker thread takes the next item and enters the worker function
Take(t) ==
    /\ pending > 0
    /\ item[t] = 0
    /\ item' = [item EXCEPT ![t] = pending]
    /\ pending' = pending - 1
    /\ UNCHANGED <<program, handles, thread_local, thread_collection, ops>>
    /\ UNCHANGED poolRest

\* the worker function gets the collection it will operate on:
\*   `collection = get_db_connection()`         nifty.py, hatomark.py
\*   `thread_collection = get_db_connection()`  nifty_updates.py, updates/sumai.py
\*   `collection = db[collection_name]`         cleanup.py
\* (the function can return before it gets here, when its fetch failed)
Connect(t) ==
    /\ item[t] # 0
    /\ thread_collection[t] = 0
    /\ IF HasThreadLocal(program)
          THEN LET c == get_db_connection(t)
               IN  /\ handles' = c.handles
                   /\ thread_local' = c.thread_local
                   /\ thread_collection' = [thread_collection EXCEPT ![t] = c.collection]
          ELSE /\ thread_collection' = [thread_collection EXCEPT ![t] = ModuleClient]
               /\ UNCHANGED <<handles, thread_local>>
    /\ UNCHANGED <<program, item, pending, ops>>
    /\ UNCHANGED poolRest

\* find_one / insert_one / update_one / delete_one in the worker function
Operate(t) ==
    /\ item[t] # 0
    /\ thread_collection[t] # 0
    /\ ops' = ops \cup {[thread |-> t, handle |-> thread_collection[t], item |-> item[t]]}
    /\ UNCHANGED <<program, handles, thread_local, item, thread_collection, pending>>
    /\ UNCHANGED poolRest

\* the worker function returns; the thread is free for the next item
Return(t) ==
    /\ item[t] # 0
    /\ item' = [item EXCEPT ![t] = 0]
    /\ thread_collection' = [thread_collection EXCEPT ![t] = 0]
    /\ UNCHANGED <<program, handles, thread_local, pending, ops>>
    /\ UNCHANGED poolRest

NextPool ==
    \/ \E n \in 1..NumItems : Submit(n)
    \/ \E t \in Workers : Take(t)
    \/ \E t \in Workers : Connect(t)
    \/ \E t \in Workers : Operate(t)
    \/ \E t \in Workers : Return(t)

SpecPool == InitPool /\ [][NextPool]_vars

\* the handles thread t has constructed
ConstructedBy(t) == {h \in DOMAIN handles : handles[h] = t}

\* every operation of a worker went through a handle the worker constructed
\* itself, no worker has constructed two, and all operations of a worker went
\* through the same one
OwnHandleOnly ==
    /\ \A op \in ops : handles[op.handle] = op.thread
    /\ \A t \in Workers : Cardinality(ConstructedBy(t)) <= 1
    /\ \A op1, op2 \in ops : op1.thread = op2.thread => op1.handle = op2.handle

\* a handle is constructed only by a worker that has none, for the item it
\* is processing
LazyConstruction ==
    handles' # handles =>
        \E t \in Workers :
            /\ item[t] # 0
            /\ thread_collection'[t] = Len(handles')
            /\ ConstructedBy(t) = {}
            /\ handles' = Append(handles, t)

(***************************************************************************)
(* C18: every record-store operation a pool worker performs goes through a *)
(* connection handle constructed by that same worker thread; a worker      *)
(* thread constructs at most one handle, on its first use, and reuses it   *)
(* for every later item.                                                   *)
(***************************************************************************)
C18_WorkerUsesOwnHandle == []OwnHandleOnly /\ [][LazyConstruction]_vars

\* what the code does: so it is in the scripts that call
\* get_db_connection(); the workers of cleanup.py all go through the
\* MongoClient the main thread constructed at module level
C18_WorkerUsesOwnHandleButCleanup ==
    /\ [](HasThreadLocal(program) => OwnHandleOnly)
    /\ [][LazyConstruction]_vars
    /\ [](~HasThreadLocal(program) => \A op \in ops : op.handle = ModuleClient)

\* the events in which a fetch has exhausted its attempts
FetchExhausted == {"index_failed", "detail_failed", "discovery_failed"}

(***************************************************************************)
(* C19: when a fetch has exhausted its attempts the crawl process goes on: *)
(* the fetcher returns the failure value, and the caller (index page,      *)
(* detail page, sub-scope discovery) continues with the next listing, page *)
(* or sub-scope.                                                           *)
(***************************************************************************)
C19_FetchExhaustionNeverFatal ==
    [][\A s \in Scopes :
          (last'.ev \in FetchExhausted /\ last'.scope = s) =>
              /\ driver' = "running"
              /\ pc'[s] \in {"gate", "index", "done"}
              /\ OthersUntouched(s)]_vars

\* what the code does: so it is for the index page and the detail page;
\* a failed discovery fetch of nifty_rentals.py ends main() with an exception
C19_FetchExhaustionFatalInDiscovery ==
    [][\A s \in Scopes :
          /\ (last'.ev \in {"index_failed", "detail_failed"} /\ last'.scope = s) =>
                /\ driver' = "running"
                /\ pc'[s] \in {"gate", "index", "done"}
                /\ OthersUntouched(s)
          /\ (last'.ev = "discovery_failed" /\ last'.scope = s) =>
                /\ adapter = "nifty_rentals"
                /\ driver' = "crashed"]_vars

\* the page loop of s has ended and the driver is in the same run: nothing
\* of s is processed any more
StaysEnded(s) ==
    (pc[s] = "done" /\ run' = run) =>
        /\ pc'[s] = "done"
        /\ page'[s] = page[s]
        /\ idx'[s] = idx[s]
        /\ site'[s] = site[s]
        /\ ins_run'[s] = ins_run[s]

(***************************************************************************)
(* C20: in the stop-on-duplicate crawlers (nifty, hatomark, nifty_rentals) *)
(* a listing whose link is already in the partition ends the page loop of  *)
(* its sub-scope: no later block of the page and no later page of the      *)
(* sub-scope is processed in that run, and the other sub-scopes are not    *)
(* affected.                                                               *)
(***************************************************************************)
C20_KnownLinkEndsSubScope ==
    [][\A s \in Scopes :
          /\ (StopOnDuplicate(adapter) /\ last'.ev = "duplicate" /\ last'.scope = s) =>
                /\ pc'[s] = "done"
                /\ page'[s] = page[s]
                /\ idx'[s] = idx[s]
                /\ collection' = collection
                /\ OthersUntouched(s)
          /\ StaysEnded(s)]_vars

\* a known link met at the first of the two blocks of a page has ended the
\* page loop of its sub-scope while the worker of another sub-scope is at a
\* listing block of its own
C20_Witness ==
    /\ StopOnDuplicate(adapter)
    /\ last.ev = "duplicate"
    /\ pc[last.scope] = "done"
    /\ idx[last.scope] = 1
    /\ site[last.scope][page[last.scope]].len = 2
    /\ \E t \in Scopes \ {last.scope} : pc[t] = "gate"

(***************************************************************************)
(* C21: in sumai.py, after a listing block whose link is already in the    *)
(* partition, the remaining listing blocks of the same page are examined   *)
(* in the same run (and the unknown ones among them inserted).             *)
(***************************************************************************)
C21_KnownLinkSkippedInSumai ==
    [][\A s \in Scopes :
          (adapter = "sumai" /\ last'.scope = s
             /\ last'.ev \in {"duplicate", "duplicate_raise"}) =>
              /\ GoesOnAfterListing(s)
              /\ driver' = driver]_vars

\* what the code does: the known link raises, and the loop of main() goes
\* to the next page whatever blocks the page still holds
C21_KnownLinkEndsPageInSumai ==
    [][\A s \in Scopes :
          (adapter = "sumai" /\ last'.scope = s
             /\ last'.ev \in {"duplicate", "duplicate_raise"}) =>
              /\ last'.ev = "duplicate_raise"
              /\ pc'[s] = "index"
              /\ page'[s] = page[s] + 1
              /\ collection' = collection]_vars

WithLink(coll, link) == {i \in DOMAIN coll : coll[i].link = link}

(***************************************************************************)
(* C23: in a crawl run, every listing block of a processed index page      *)
(* whose link is not in the partition and whose detail fetch, translations *)
(* and label lookups succeed has exactly one document with its link in the *)
(* partition when the run ends. (A crawl run removes no document, so the   *)
(* documents with the link are exactly one at the end if they are exactly  *)
(* one after each of the steps that end the processing of such a block.)   *)
(***************************************************************************)
C23_NewListingStoredOnce ==
    [][\A s \in Scopes :
          (pc[s] = "insert" /\ pc'[s] # "insert" /\ run' = run) =>
              Cardinality(WithLink(collection', listing(s))) = 1]_vars

\* what the code does in sumai.py: no run inserts any document
C23_SumaiStoresNothing ==
    [][adapter = "sumai" => collection' = collection]_vars

(***************************************************************************)
(* Two processes of one crawler on the same partition                      *)
(*                                                                         *)
(* Nothing in the scripts keeps a second process from being started while  *)
(* the first is running. Both fetch the same index page and walk its       *)
(* blocks: find_one, then the detail page, fields and images (which touch  *)
(* nothing shared), then insert_one.                                       *)
(***************************************************************************)
Processes == {1, 2}

\* the crawlers that insert documents
Inserting == {"nifty", "hatomark", "nifty_rentals"}

\* the index pages: one to MaxBlocks blocks, each with a link
Listings == UNION {[1..n -> Links] : n \in 1..MaxBlocks}

InitTwin ==
    /\ FetchIdle
    /\ CrawlIdle
    /\ BackfillIdle
    /\ ExtractIdle
    /\ PoolIdle
    /\ DiskIdle
    /\ collection = <<>>
    /\ d_adapter \in Inserting
    /\ d_listings \in Listings
    /\ d_pc = [d \in Processes |-> "idle"]
    /\ d_idx = [d \in Processes |-> 0]

twinRest == <<fetchVars, crawlLocals, backfillVars, extractVars, poolVars, diskVars>>

\* main() of process d is started and has fetched the index page
Launch(d) ==
    /\ d_pc[d] = "idle"
    /\ d_pc' = [d_pc EXCEPT ![d] = "gate"]
    /\ d_idx' = [d_idx EXCEPT ![d] = 1]
    /\ UNCHANGED <<d_adapter, d_listings, collection>>
    /\ UNCHANGED twinRest

\* `for listing in listings`: the next block, or the end of the page (the
\* pages after it hold no listing)
Advance(d) ==
    IF d_idx[d] < Len(d_listings)
       THEN /\ d_idx' = [d_idx EXCEPT ![d] = @ + 1]
            /\ d_pc' = [d_pc EXCEPT ![d] = "gate"]
       ELSE /\ d_pc' = [d_pc EXCEPT ![d] = "done"]
            /\ UNCHANGED d_idx

\* `existing_doc = collection.find_one({"link": link})`, `if existing_doc:
\* return False`, else everything up to insert_one
Lookup(d) ==
    /\ d_pc[d] = "gate"
    /\ IF find_one(d_listings[d_idx[d]])
          THEN /\ d_pc' = [d_pc EXCEPT ![d] = "done"]
               /\ UNCHANGED d_idx
          ELSE \E out \in DetailOutcomes(d_adapter) :
                  CASE out = "ok" -> /\ d_pc' = [d_pc EXCEPT ![d] = "insert"]
                                     /\ UNCHANGED d_idx
                    [] out = "failed" -> Advance(d)
                    [] out = "raise" -> /\ d_pc' = [d_pc EXCEPT ![d] = "done"]
                                        /\ UNCHANGED d_idx
    /\ UNCHANGED <<d_adapter, d_listings, collection>>
    /\ UNCHANGED twinRest

\* the document process d is about to insert
NewDocument(d) == [link |-> d_listings[d_idx[d]], createdAt |-> createdAt(d_adapter)]

\* insert_one preceded by a second look at the partition, the two in one step
Store_Atomic(d) ==
    /\ d_pc[d] = "insert"
    /\ IF find_one(d_listings[d_idx[d]])
          THEN /\ UNCHANGED collection
               /\ d_pc' = [d_pc EXCEPT ![d] = "done"]
               /\ UNCHANGED d_idx
          ELSE /\ collection' = Append(collection, NewDocument(d))
               /\ Advance(d)
    /\ UNCHANGED <<d_adapter, d_listings>>
    /\ UNCHANGED twinRest

\* collection.insert_one(listing_data)
Store(d) ==
    /\ d_pc[d] = "insert"
    /\ collection' = Append(collection, NewDocument(d))
    /\ Advance(d)
    /\ UNCHANGED <<d_adapter, d_listings>>
    /\ UNCHANGED twinRest

NextTwin ==
    \/ \E d \in Processes : Launch(d)
    \/ \E d \in Processes : Lookup(d)
    \/ \E d \in Processes : Store(d)

SpecTwin == InitTwin /\ [][NextTwin]_vars

(***************************************************************************)
(* C24: the lookup and the insert of the duplicate gate are two steps:     *)
(* a process that has looked a link up and not found it inserts its        *)
(* document whatever the partition holds by then. With two processes of a  *)
(* crawler on one partition, a state with two documents of one link is     *)
(* reachable (C24_Witness).                                                *)
(***************************************************************************)
C24_InsertDoesNotLookAgain ==
    [][\A d \in Processes :
          (d_pc[d] = "insert" /\ <<d_pc'[d], d_idx'[d]>> # <<d_pc[d], d_idx[d]>>) =>
              collection' = Append(collection, NewDocument(d))]_vars

\* both processes have inserted a document for the first block of the page
C24_Witness ==
    /\ Len(collection) >= 2
    /\ collection[1].link = collection[2].link
    /\ \A d \in Processes : d_pc[d] \in {"gate", "insert", "done"}

(***************************************************************************)
(* The images of one listing, for every page a site can serve              *)
(***************************************************************************)
\* the markup of a listing whose fields are all there, with every list of
\* image elements and every outcome of the downloads
ImageInputs(a) ==
    {[price |-> Str(AmountText(<<"3", "0">>, million, yen)),
      location |-> Str(<<"T">>),
      elements |-> es,
      saved |-> ok] : es \in ElementLists(a), ok \in SUBSET (1..MaxImages)}

InitImages ==
    /\ FetchIdle
    /\ CrawlIdle
    /\ BackfillIdle
    /\ PoolIdle
    /\ TwinIdle
    /\ DiskIdle
    /\ collection = <<>>
    /\ e_adapter \in Adapters
    /\ e_input \in ImageInputs(e_adapter)
    /\ e_pc = "fields"
    /\ listing_data = <<>>
    /\ img_urls = <<>>
    /\ image_paths = <<>>

SpecImages == InitImages /\ [][NextExtract]_vars

(***************************************************************************)
(* C25: all the image downloads of a listing are done before its document  *)
(* is inserted, and the document is inserted at most once: no document is  *)
(* in the partition with a part of its images list.                        *)
(***************************************************************************)
C25_ImagesCompleteBeforeInsert ==
    /\ [](Len(collection) <= 1)
    /\ [](\A i \in DOMAIN collection :
             Len(collection[i]["images"]) = Len(img_urls))
    /\ [][collection' # collection =>
             /\ Len(image_paths) = Len(img_urls)
             /\ listing_data["images"] = image_paths
             /\ collection' = Append(collection, listing_data)]_vars

\* a document inserted after two downloads, the second of which failed
C25_Witness ==
    /\ e_pc = "done"
    /\ Len(collection) = 1
    /\ Len(img_urls) = 2
    /\ collection[1]["images"] = <<CrawledPath(1, 1), None>>

\* the order in which the crawler goes through the image elements of the
\* page: hatomark.py by data-index, the others as the document has them
WalkOrder(a, elements) == IF a = "hatomark" THEN sorted(elements) ELSE elements

\* where the URL is seen first
FirstSeen(elements, url) ==
    CHOOSE k \in DOMAIN elements :
        /\ elements[k].src = url
        /\ \A j \in 1..(k - 1) : elements[j].src # url

\* no URL twice, and the URLs in the order in which they were seen first
OnceInFirstSeenOrder(urls, elements) ==
    \A j, k \in DOMAIN urls :
        j < k => /\ urls[j].src # urls[k].src
                 /\ FirstSeen(elements, urls[j].src) < FirstSeen(elements, urls[k].src)

\* the image URLs of the listing have been resolved
Resolved == e_pc \notin {"fields", "images"}

(***************************************************************************)
(* C28: the list of image URLs resolved for a listing holds no URL twice   *)
(* and keeps the URLs that remain in the order in which they were seen     *)
(* first.                                                                  *)
(***************************************************************************)
C28_UrlsOnceInFirstSeenOrder ==
    Resolved =>
        OnceInFirstSeenOrder(img_urls, WalkOrder(e_adapter, e_input.elements))

\* what the code does: nifty.py leaves out a src it has seen; hatomark.py
\* leaves out only a (data-index, src) pair it has seen; sumai.py takes one
\* image
C28_UrlsOnceInNifty ==
    (Resolved /\ e_adapter \in {"nifty", "sumai"}) =>
        /\ OnceInFirstSeenOrder(img_urls, e_input.elements)
        /\ e_adapter = "nifty" =>
              {img_urls[k].src : k \in DOMAIN img_urls}
                 = {e_input.elements[k].src : k \in DOMAIN e_input.elements}

(***************************************************************************)
(* C29: hatomark.py downloads and stores the images of a listing in        *)
(* ascending order of the data-index of their elements, whatever the order *)
(* of the elements in the document.                                        *)
(***************************************************************************)
C29_ImagesInDataIndexOrder ==
    (e_adapter = "hatomark" /\ Resolved) =>
        \* the elements found, each (data-index, src) pair once
        /\ {img_urls[k] : k \in DOMAIN img_urls}
              = {e_input.elements[k] : k \in DOMAIN e_input.elements}
        /\ \A j, k \in DOMAIN img_urls :
              j < k => /\ img_urls[j].index <= img_urls[k].index
                       /\ img_urls[j] # img_urls[k]
        \* the k-th download is that of the k-th of them, and so is the k-th entry
        /\ Len(image_paths) <= Len(img_urls)
        /\ \A k \in DOMAIN image_paths :
              image_paths[k] \in {CrawledPath(1, k), None}
        /\ \A i \in DOMAIN collection :
              collection[i]["images"] = image_paths /\ Len(image_paths) = Len(img_urls)

\* a page whose first element has data-index 1 and whose second has
\* data-index 0: the document holds the image of the second element first
C29_Witness ==
    /\ e_adapter = "hatomark"
    /\ e_pc = "done"
    /\ e_input.elements = <<[src |-> 1, index |-> 1], [src |-> 2, index |-> 0]>>
    /\ img_urls = <<[src |-> 2, index |-> 0], [src |-> 1, index |-> 1]>>
    /\ collection[1]["images"] = <<CrawledPath(1, 1), CrawledPath(1, 2)>>

\* some download of the listing has failed
SomeDownloadFailed == \E k \in DOMAIN image_paths : image_paths[k] = None

(***************************************************************************)
(* C30: whichever of the image downloads of a listing fail (non-success    *)
(* status, or an exception in save_image), the document of the listing is  *)
(* inserted all the same and the loop goes on to the next listing.         *)
(***************************************************************************)
C30_FailedDownloadsDoNotAbort ==
    \* a turn of the download loop ends in the loop or after it, never in an exception
    /\ [][e_pc = "download" => e_pc' \in {"download", "price", "insert"}]_vars
    \* the crawlers that insert documents raise nothing after a failed download,
    /\ []((SomeDownloadFailed /\ e_adapter \in Inserting) => e_pc # "raised")
    \* and at the end of the loop body the document is in the partition
    /\ []((SomeDownloadFailed /\ e_pc = "done") =>
             /\ Len(collection) = 1
             /\ collection[1]["images"] = image_paths)

\* both downloads of a listing have failed, and its document is inserted
C30_Witness ==
    /\ e_pc = "done"
    /\ Len(img_urls) = 2
    /\ image_paths = <<None, None>>
    /\ Len(collection) = 1
    /\ collection[1]["images"] = <<None, None>>

\* the status codes 2xx
Is2xx(r) == r \in 200..299

\* this step is a requests.get
Requested == requests' = requests + 1

(***************************************************************************)
(* C27: the fetcher takes every 2xx response as success and returns its    *)
(* body without a further attempt; only a non-2xx status, a network error  *)
(* or a timeout leads to a backoff sleep and a retry.                      *)
(***************************************************************************)
C27_Any2xxIsSuccess ==
    [][Requested =>
          IF Is2xx(response')
             THEN f_pc' = "done" /\ f_result' = "body"
             ELSE f_pc' = "sleep"]_vars

\* what the code does: the status 200 alone is success; every other status
\* (the other 2xx among them) and every RequestException leads to the sleep
C27_Only200IsSuccess ==
    [][Requested =>
          IF response' = 200
             THEN f_pc' = "done" /\ f_result' = "body"
             ELSE f_pc' = "sleep" /\ failures' = failures + 1]_vars

\* the worker of s has gone through every block of the page it is at, and
\* the step that ends the page raises nothing: scrape_page returns a true value
ReportsContinue(s) ==
    /\ idx[s] = site'[s][page[s]].len
    /\ last'.scope = s
    /\ last'.ev \notin Raising

\* the page loop of s starts at page 1, goes from a page to the one after
\* it and to no other, and fetches a page once
PagesOneByOne(s) ==
    /\ (pc[s] = "queued" /\ pc'[s] = "index") => page'[s] = 1
    /\ (page'[s] # page[s] /\ run' = run) => page'[s] = page[s] + 1
    /\ (pc[s] = "index" /\ pc'[s] = "index" /\ run' = run /\ last'.scope = s) =>
          page'[s] = page[s] + 1

(***************************************************************************)
(* C26: in a sub-scope the first page fetched is page 1, page p+1 is       *)
(* fetched only after page p has been processed to its end and has         *)
(* reported `continue`, and no page is fetched twice in a run.             *)
(***************************************************************************)
C26_NextPageOnlyAfterContinue ==
    [][\A s \in Scopes :
          /\ PagesOneByOne(s)
          /\ (page'[s] # page[s] /\ run' = run) => ReportsContinue(s)]_vars

\* what the code does: so it is in nifty.py, hatomark.py and
\* nifty_rentals.py; the loop of sumai.py goes to the next page after an
\* exception as well
C26_NextPageAfterExceptionInSumai ==
    [][\A s \in Scopes :
          /\ PagesOneByOne(s)
          /\ (page'[s] # page[s] /\ run' = run) =>
                \/ ReportsContinue(s)
                \/ adapter = "sumai" /\ last'.scope = s /\ last'.ev \in Raising]_vars

(***************************************************************************)
(* The re-fetch of a record's link by a backfill task                      *)
(* (nifty_updates.py:92-107, updates/sumai.py:87-91), request by request.  *)
(* One re-fetch is followed at a time; a task is "fetching" from the call  *)
(* to its return and goes on to "parse" when it has the page.              *)
(***************************************************************************)
\* a document main() selects: one image, no contact number
Selected(u, d) ==
    [link : LinkKinds(u), images : {<<CrawledPath(d, 1)>>}, contact : {NoTel}]

\* main() has read the documents and submitted a task for each of them
InitRefetch ==
    /\ FetchIdle
    /\ CrawlIdle
    /\ ExtractIdle
    /\ PoolIdle
    /\ TwinIdle
    /\ DiskIdle
    /\ updater \in Updaters
    /\ collection \in [DocIds -> UNION {Selected(updater, d) : d \in DocIds}]
    /\ \A d \in DocIds : collection[d] \in Selected(updater, d)
    /\ pass = [p \in Passes |-> IF p = 1 THEN "running" ELSE "idle"]
    /\ tasks = [p \in Passes |->
                  IF p = 1
                  THEN [d \in documents(updater) |->
                          [doc |-> collection[d], pc |-> "fetch", html |-> FALSE,
                           contact |-> NoTel, urls |-> 0, new |-> <<>>]]
                  ELSE <<>>]
    /\ b_last = [pass |-> 1, id |-> 0, ev |-> "start"]

\* is the link fetched with fetch_with_backoff (updates/sumai.py), or with
\* one requests.post to the extraction API (nifty_updates.py)
UsesBackoff(u) == u = "sumai_updates"

\* what the one requests.post of nifty_updates.py gives for an answer r:
\* a RequestException is not caught, an answer without "browserHtml" is a
\* KeyError, an empty "browserHtml" is falsy
api_response(r) ==
    IF r = RequestException THEN {"raise"}
    ELSE IF IsSuccess(r) THEN {"body", "None"}
    ELSE {"raise"}

\* html = fetch_with_backoff(link): the call starts;
\* api_response = requests.post(...); html = api_response.json()["browserHtml"]
BeginRefetch(p, d) ==
    /\ pass[p] = "running"
    /\ d \in DOMAIN tasks[p]
    /\ tasks[p][d].pc = "fetch"
    /\ \A e \in DOMAIN tasks[p] : tasks[p][e].pc # "fetching"
    /\ tasks' = [tasks EXCEPT ![p][d].pc = "fetching"]
    /\ b_last' = [pass |-> p, id |-> d, ev |-> "refetch"]
    /\ attempt' = 0
    /\ backoff' = f_initial
    /\ sleeps' = <<>>
    /\ IF UsesBackoff(updater)
          THEN /\ f_pc' = "request"
               /\ requests' = 0
               /\ failures' = 0
               /\ f_result' = "pending"
               /\ response' = NoResponse
          ELSE \E r \in Responses : \E html \in api_response(r) :
                 /\ f_pc' = "done"
                 /\ requests' = 1
                 /\ failures' = IF html = "body" THEN 0 ELSE 1
                 /\ f_result' = html
                 /\ response' = r
    /\ UNCHANGED <<f_initial, updater, pass, collection>>
    /\ UNCHANGED <<crawlLocals, extractVars, poolVars, twinVars, diskVars>>

\* `if not html: ... return False`, the exception caught by process_document,
\* or the task goes on with the page
EndRefetch(p, d) ==
    /\ pass[p] = "running"
    /\ d \in DOMAIN tasks[p]
    /\ tasks[p][d].pc = "fetching"
    /\ f_pc = "done"
    /\ UNCHANGED collection
    /\ CASE f_result = "None" ->
              /\ tasks' = [tasks EXCEPT ![p][d].pc = "done"]
              /\ TaskDone(p, d, "fetch_failed")
         [] f_result = "raise" ->
              /\ tasks' = [tasks EXCEPT ![p][d].pc = "done"]
              /\ TaskDone(p, d, "raise")
         [] OTHER ->
              /\ tasks' = [tasks EXCEPT ![p][d].pc = "parse", ![p][d].html = TRUE]
              /\ TaskDone(p, d, "fetched")

NextRefetch ==
    \/ \E p \in Passes : \E d \in DocIds : BeginRefetch(p, d)
    \/ Request
    \/ Sleep
    \/ \E p \in Passes : \E d \in DocIds : EndRefetch(p, d)

SpecRefetch == InitRefetch /\ [][NextRefetch]_vars

\* the task of run p for document d has just given the record up because
\* the re-fetch of its link failed
GivenUp(p, d) ==
    /\ d \in DOMAIN tasks[p]
    /\ tasks[p][d].pc = "done"
    /\ b_last.pass = p
    /\ b_last.id = d
    /\ b_last.ev \in {"fetch_failed", "raise"}

(***************************************************************************)
(* C31: in every backfill pass, a failing re-fetch of a record's link is   *)
(* retried with backoff up to the attempt cap (5 attempts) before that     *)
(* record is given up as an item-scoped failure.                           *)
(***************************************************************************)
C31_GivenUpAfterFiveAttempts ==
    \A p \in Passes : \A d \in DocIds :
        GivenUp(p, d) => (requests = MAX_RETRIES /\ Len(sleeps) = MAX_RETRIES)

\* what the code does: five requests with a backoff sleep after each in
\* updates/sumai.py, one request and no backoff in nifty_updates.py
C31_GivenUpAfterFiveAttemptsInSumai ==
    \A p \in Passes : \A d \in DocIds :
        GivenUp(p, d) =>
            IF UsesBackoff(updater)
            THEN requests = MAX_RETRIES /\ Len(sleeps) = MAX_RETRIES
            ELSE requests = 1 /\ sleeps = <<>>

\* every stored path of record d lies in the directory named by the canonical
\* form of d's id
InOwnDirectory(d) ==
    \A i \in DOMAIN collection[d].images :
        /\ collection[d].images[i].id = d
        /\ collection[d].images[i].dir = str_uuid

(***************************************************************************)
(* C32: after any sequence of crawl and backfill passes, every path in a   *)
(* record's images field has the form                                      *)
(* images/<site>/<that record's canonical id>/<generated-filename>.jpg:    *)
(* images added by a backfill pass are stored under the same per-listing   *)
(* directory as the images saved at crawl time.                            *)
(***************************************************************************)
C32_ImagesUnderCanonicalId ==
    \A d \in DOMAIN collection : InOwnDirectory(d)

\* what the code does: the paths of nifty_updates.py lie in the directory of
\* the crawl; those of updates/sumai.py lie in a directory named by the
\* bytes literal of the id
C32_ImagesUnderCanonicalIdInNifty ==
    \A d \in DOMAIN collection : \A i \in DOMAIN collection[d].images :
        LET path == collection[d].images[i]
        IN /\ path.id = d
           /\ path.dir = IF path.pass > 0 /\ updater = "sumai_updates"
                         THEN "binary" ELSE str_uuid

(***************************************************************************)
(* cleanup.py: every document of a collection is read, and one             *)
(* process_document(collection_name, doc) task per document runs in a pool *)
(* of MAX_WORKERS = 20 threads.  A document here is [link, images]; the    *)
(* collection maps the ids of the stored documents to them.                *)
(***************************************************************************)
\* doc.get("link") of a document without link
NoLink == ""

\* what requests.get(link) of cleanup.py can produce
CleanupResponses == {200, 404, 410, 503, RequestException}

\* `if response.status_code in [404, 410]`, with every answer but 200 taken
Gone_Not200(r) == r # 200

\* `if response.status_code in [404, 410]`
Gone(r) == r \in {404, 410}

\* the image lists a stored document can have; None is what a failed
\* download left in the list at crawl time
ImageLists(d) ==
    {<<>>, <<CrawledPath(d, 1)>>, <<CrawledPath(d, 1), CrawledPath(d, 2)>>,
     <<None, CrawledPath(d, 2)>>}

\* the paths in a list of images
RECURSIVE PathsIn(_)
PathsIn(images) ==
    IF images = <<>> THEN {}
    ELSE (IF Head(images) = None THEN {} ELSE {Head(images)}) \cup PathsIn(Tail(images))

\* the paths of the files saved for document d
PathsOf(d) == {CrawledPath(d, 1), CrawledPath(d, 2)}

\* docs = list(collection.find({}, {"link": 1, "images": 1})) and the
\* submission of one task per document; a file of a stored path may be missing
InitCleanup ==
    /\ FetchIdle
    /\ CrawlIdle
    /\ BackfillIdle
    /\ ExtractIdle
    /\ PoolIdle
    /\ TwinIdle
    /\ collection \in [DocIds -> UNION {[link : {NoLink, "link"}, images : ImageLists(d)]
                                          : d \in DocIds}]
    /\ \A d \in DocIds : collection[d].images \in ImageLists(d)
    /\ files \in SUBSET (UNION {PathsOf(d) : d \in DocIds})
    /\ \A d \in DocIds : PathsOf(d) \cap files \subseteq PathsIn(collection[d].images)
    /\ c_task = [d \in DocIds |->
                    [doc |-> collection[d], pc |-> "get", status |-> NoResponse,
                     i |-> 1, attempted |-> <<>>]]
    /\ fix_run = 0
    /\ fix_docs = <<>>
    /\ fix_last = [id |-> 0, failed |-> {}]

diskRest == <<fetchVars, crawlLocals, backfillVars, extractVars, poolVars, twinVars,
              fixVars>>

\* process_document up to the test of the status: no link, a request error
\* (caught and logged) and every status but 404 and 410 end the task
Get(d) ==
    /\ d \in DOMAIN c_task
    /\ c_task[d].pc = "get"
    /\ IF c_task[d].doc.link = NoLink
          THEN c_task' = [c_task EXCEPT ![d].pc = "done"]
          ELSE \E r \in CleanupResponses :
                 c_task' = [c_task EXCEPT ![d].status = r,
                                          ![d].pc = IF r # RequestException /\ Gone(r)
                                                    THEN "remove" ELSE "done"]
    /\ UNCHANGED <<collection, files, diskRest>>

\* one iteration of `for relative_path in images`: os.path.join raises
\* TypeError for None, outside the inner try, and the task ends there;
\* os.remove of an existing file removes it or raises, which is caught
Remove(d) ==
    /\ d \in DOMAIN c_task
    /\ c_task[d].pc = "remove"
    /\ c_task[d].i <= Len(c_task[d].doc.images)
    /\ LET relative_path == c_task[d].doc.images[c_task[d].i]
       IN IF relative_path = None
          THEN /\ c_task' = [c_task EXCEPT ![d].pc = "raised"]
               /\ UNCHANGED files
          ELSE /\ c_task' = [c_task EXCEPT
                                ![d].i = @ + 1,
                                ![d].attempted = Append(@, relative_path)]
               /\ \/ files' = files \ {relative_path}
                  \/ /\ relative_path \in files
                     /\ UNCHANGED files
    /\ UNCHANGED <<collection, diskRest>>

\* collection.delete_one({"_id": doc["_id"]}) after the loop
Delete(d) ==
    /\ d \in DOMAIN c_task
    /\ c_task[d].pc = "remove"
    /\ c_task[d].i > Len(c_task[d].doc.images)
    /\ collection' = [e \in DOMAIN collection \ {d} |-> collection[e]]
    /\ c_task' = [c_task EXCEPT ![d].pc = "done"]
    /\ UNCHANGED <<files, diskRest>>

NextCleanup ==
    \/ \E d \in DocIds : Get(d)
    \/ \E d \in DocIds : Remove(d)
    \/ \E d \in DocIds : Delete(d)

SpecCleanup == InitCleanup /\ [][NextCleanup]_vars

(***************************************************************************)
(* C33: the cleanup process deletes a record only if a GET of its link     *)
(* returned status 404 or 410, and it attempts the removal of every path   *)
(* in the record's images before deleting the record; when the request     *)
(* raises a network error or returns any other status, the record and its  *)
(* image files are left unchanged.                                         *)
(***************************************************************************)
C33_DeletesOnlyGoneRecords ==
    [][\A d \in DocIds :
          /\ (d \in DOMAIN collection /\ d \notin DOMAIN collection') =>
                /\ c_task[d].status \in {404, 410}
                /\ c_task[d].attempted = collection[d].images
          /\ (c_task'[d].status \notin {404, 410} /\ d \in DOMAIN collection) =>
                /\ d \in DOMAIN collection'
                /\ collection'[d] = collection[d]
                /\ files' \cap PathsOf(d) = files \cap PathsOf(d)]_vars

\* one record deleted after a 410 and the removal of its two files, another
\* one kept, with its files, after a request error
C33_Witness ==
    \E d, e \in DocIds :
        /\ d \notin DOMAIN collection
        /\ c_task[d].status = 410
        /\ Len(c_task[d].attempted) = 2
        /\ PathsOf(d) \cap files = {}
        /\ e \in DOMAIN collection
        /\ c_task[e].pc = "done"
        /\ c_task[e].status = RequestException
        /\ PathsOf(e) \subseteq files

(***************************************************************************)
(* C34: in the stop-on-duplicate crawlers, if the first listing block on   *)
(* page 1 of a sub-scope is already in the partition, the run inserts no   *)
(* document for that sub-scope, even when later listings of the sub-scope  *)
(* are not in the partition (listings dropped earlier because their detail *)
(* fetch failed, or left unscraped by an interrupted run, are not picked   *)
(* up by a later run).                                                     *)
(***************************************************************************)
C34_KnownFirstBlockInsertsNothing ==
    [][\A s \in Scopes :
          StopOnDuplicate(adapter) =>
             /\ (/\ last'.ev = "duplicate"
                 /\ last'.scope = s
                 /\ page[s] = 1
                 /\ idx[s] = 1) =>
                    /\ pc'[s] = "done"
                    /\ ins_run'[s] = 0
             /\ (pc[s] = "done" /\ run' = run) =>
                    /\ pc'[s] = "done"
                    /\ ins_run'[s] = ins_run[s]]_vars

\* the second run has stopped at the known first block of page 1, whose
\* second block (dropped in the first run) is not in the partition
C34_Witness ==
    /\ StopOnDuplicate(adapter)
    /\ run = 2
    /\ last.ev = "duplicate"
    /\ pc[last.scope] = "done"
    /\ page[last.scope] = 1
    /\ idx[last.scope] = 1
    /\ ins_run[last.scope] = 0
    /\ Len(site[last.scope][1].blocks) = 2
    /\ site[last.scope][1].blocks[2] # NoAnchor
    /\ ~find_one(site[last.scope][1].blocks[2])

(***************************************************************************)
(* C35: when the fetch of index page p of a sub-scope exhausts its         *)
(* attempts, the page loop of the sub-scope ends as it does at the end of  *)
(* the pages: no page after p is fetched in that run and no error reaches  *)
(* the driver.                                                             *)
(***************************************************************************)
C35_IndexFetchExhaustionEndsLoop ==
    [][\A s \in Scopes :
          /\ (last'.ev = "index_failed" /\ last'.scope = s) =>
                /\ pc'[s] = "done"
                /\ page'[s] = page[s]
                /\ driver' = driver
                /\ collection' = collection
          /\ (pc[s] = "done" /\ run' = run) =>
                /\ pc'[s] = "done"
                /\ page'[s] = page[s]
                /\ site'[s] = site[s]]_vars

\* the fetch of page 2 has been exhausted after a document of page 1 was
\* inserted: the page loop is over and the driver goes on
C35_Witness ==
    /\ last.ev = "index_failed"
    /\ page[last.scope] = 2
    /\ pc[last.scope] = "done"
    /\ ins_run[last.scope] = 1
    /\ driver = "running"

\* the entries of a list of paths
Range(paths) == {paths[i] : i \in DOMAIN paths}

(***************************************************************************)
(* C36: a backfill worker writes the images field as a whole: the images   *)
(* read when the batch was selected, followed by the newly saved paths.    *)
(* If the record's images change between the selection and the write (a    *)
(* second, overlapping pass on the same partition), that change is         *)
(* overwritten: a state in which an appended image path is lost again is   *)
(* reachable.                                                              *)
(***************************************************************************)
C36_ImagesWrittenAsWhole ==
    [][\A p \in Passes : \A d \in DocIds :
          (b_last'.ev = "images" /\ b_last'.pass = p /\ b_last'.id = d) =>
              collection'[d].images = tasks[p][d].doc.images \o tasks'[p][d].new]_vars

\* two overlapping passes have written the images of the same record: a
\* path the first one appended is no longer in the list
C36_Witness ==
    \E d \in DocIds :
        /\ d \in DOMAIN tasks[1] /\ d \in DOMAIN tasks[2]
        /\ tasks[1][d].pc = "done" /\ tasks[2][d].pc = "done"
        /\ tasks[1][d].new # <<>>
        /\ tasks[2][d].new # <<>>
        /\ b_last = [pass |-> 2, id |-> d, ev |-> "images"]
        /\ Range(tasks[1][d].new) \cap Range(collection[d].images) = {}
        /\ Range(tasks[2][d].new) \subseteq Range(collection[d].images)

\* a complete pass has appended images to record d
Appended(d) ==
    \E q \in Passes :
        /\ pass[q] = "complete"
        /\ d \in DOMAIN tasks[q]
        /\ tasks[q][d].new # <<>>

\* no additional image of the detail page is stored twice: the paths a pass
\* saved are told apart by the place k of their URL on the page
NoRepeatedImage(images) ==
    \A i, j \in DOMAIN images :
        (i < j /\ images[i].pass > 0 /\ images[j].pass > 0) => images[i].k # images[j].k

(***************************************************************************)
(* C37: once a backfill pass has appended at least one image to a record,  *)
(* no later pass that does not overlap with it appends images to that      *)
(* record again (the record no longer has exactly one image), so           *)
(* repeating backfill passes never duplicates image entries.               *)
(***************************************************************************)
C37_NoSecondAppend ==
    [][/\ \A p \in Passes : \A d \in DocIds :
            \* main() of p starts after a pass that appended to d is complete
            /\ (pass[p] = "idle" /\ pass'[p] # "idle" /\ Appended(d)
                   /\ d \in DOMAIN tasks'[p]) =>
                  Len(tasks'[p][d].doc.images) > 1
            \* a task writes images only for a document read with one image
            /\ (collection'[d].images # collection[d].images
                   /\ b_last'.pass = p /\ b_last'.id = d) =>
                  Len(tasks[p][d].doc.images) = 1
       /\ \A d \in DocIds : NoRepeatedImage(collection'[d].images)]_vars

\* the second run of nifty_updates.py, started after the first one appended
\* two images to a record without contact number, has fetched the record's
\* page again and left its images as they were
C37_Witness ==
    \E d \in DocIds :
        /\ pass[1] = "complete" /\ pass[2] = "complete"
        /\ d \in DOMAIN tasks[1] /\ d \in DOMAIN tasks[2]
        /\ Len(tasks[1][d].new) = 2
        /\ tasks[2][d].doc.images = tasks[1][d].doc.images \o tasks[1][d].new
        /\ tasks[2][d].html
        /\ tasks[2][d].new = <<>>
        /\ collection[d].images = tasks[2][d].doc.images

(***************************************************************************)
(* fix_binary_paths.py: fix_collection_paths reads the documents with more *)
(* than one image and, one document after the other, replaces the b'...'   *)
(* segment of each path by the canonical id, moves the file and writes the *)
(* new list.  A document here is [images].                                 *)
(***************************************************************************)
\* runs of fix_collection_paths over the collection
MaxFixRuns == 2

\* a path updates/sumai.py stored for the k-th additional image of record d
BinaryPath(d, k) == [pass |-> 1, id |-> d, k |-> k, dir |-> "binary"]

\* the image lists a record can have before the first run
FixImageLists(d) ==
    {<<CrawledPath(d, 1)>>,
     <<CrawledPath(d, 1), CrawledPath(d, 2)>>,
     <<CrawledPath(d, 1), BinaryPath(d, 1)>>,
     <<CrawledPath(d, 1), BinaryPath(d, 1), BinaryPath(d, 2)>>}

\* re.search(r"b'([^']*)'", path): the b'...' part of the path, or None
extract_binary_uuid_from_path(path) ==
    IF path # None /\ path.dir = "binary" THEN [type |-> "str", v |-> "binary"] ELSE None

\* needs_fixing = any("b'" in str(img_path) for img_path in images)
needs_fixing(images) ==
    \E i \in DOMAIN images : extract_binary_uuid_from_path(images[i]) # None

\* new_path = img_path_str.replace(binary_part, proper_uuid)
new_path(img_path, d) == [img_path EXCEPT !.dir = str_uuid, !.id = d]

\* new_images after the loop over `images`: the new path is appended before
\* the file is moved, and the old path is appended after it when the move
\* raised (`new_images.append(img_path); continue`)
RECURSIVE new_images(_, _, _)
new_images(images, d, failed) ==
    IF images = <<>> THEN <<>>
    ELSE LET n == Len(images)
             img_path == images[n]
         IN new_images(SubSeq(images, 1, n - 1), d, failed) \o
            (IF extract_binary_uuid_from_path(img_path) # None
             THEN <<new_path(img_path, d)>> \o
                  (IF n \in failed THEN <<img_path>> ELSE <<>>)
             ELSE <<img_path>>)

\* the places of `images` whose file shutil.move is called for
Movable(images, fls) ==
    {i \in DOMAIN images :
        extract_binary_uuid_from_path(images[i]) # None /\ images[i] \in fls}

\* the files after the loop: a file that exists under the old path is moved
\* unless os.makedirs or shutil.move raised
moved_files(images, d, failed, fls) ==
    (fls \ {images[i] : i \in Movable(images, fls) \ failed})
        \cup {new_path(images[i], d) : i \in Movable(images, fls) \ failed}

\* the records of the collection; a file of a stored path may be missing
InitFix ==
    /\ FetchIdle
    /\ CrawlIdle
    /\ BackfillIdle
    /\ ExtractIdle
    /\ PoolIdle
    /\ TwinIdle
    /\ collection \in [DocIds -> UNION {[images : FixImageLists(d)] : d \in DocIds}]
    /\ \A d \in DocIds : collection[d].images \in FixImageLists(d)
    /\ files \in SUBSET (UNION {PathsIn(collection[d].images) : d \in DocIds})
    /\ c_task = <<>>
    /\ fix_run = 0
    /\ fix_docs = <<>>
    /\ fix_last = [id |-> 0, failed |-> {}]

fixRest == <<fetchVars, crawlLocals, backfillVars, extractVars, poolVars, twinVars, c_task>>

\* the documents with more than one image, in the order of their ids
RECURSIVE aggregate(_)
aggregate(n) ==
    IF n = 0 THEN <<>>
    ELSE aggregate(n - 1) \o
         (IF Len(collection[n].images) > 1
          THEN <<[id |-> n, images |-> collection[n].images]>> ELSE <<>>)

\* fix_collection_paths(collection_name, folder_name) is called:
\* documents = list(collection.aggregate(pipeline))
StartFix ==
    /\ fix_docs = <<>>
    /\ fix_run < MaxFixRuns
    /\ fix_run' = fix_run + 1
    /\ fix_docs' = aggregate(NumDocs)
    /\ fix_last' = [id |-> 0, failed |-> {}]
    /\ UNCHANGED <<collection, files, fixRest>>

\* one iteration of `for doc in documents`
FixDocument ==
    /\ fix_docs # <<>>
    /\ LET doc == Head(fix_docs)
           images == doc.images
       IN IF ~needs_fixing(images)
          THEN /\ fix_last' = [id |-> doc.id, failed |-> {}]
               /\ UNCHANGED <<collection, files>>
          ELSE \E failed \in SUBSET Movable(images, files) :
                 /\ fix_last' = [id |-> doc.id, failed |-> failed]
                 /\ files' = moved_files(images, doc.id, failed, files)
                 /\ collection' = update_one(collection, doc.id, "images",
                                             new_images(images, doc.id, failed))
    /\ fix_docs' = Tail(fix_docs)
    /\ UNCHANGED <<fix_run, fixRest>>

NextFix == StartFix \/ FixDocument

SpecFix == InitFix /\ [][NextFix]_vars

\* the list with each binary-form id segment replaced by the canonical id
\* of record d and every other entry as it is
Rewritten(images, d) ==
    [i \in DOMAIN images |->
        IF images[i] # None /\ images[i].dir = "binary"
        THEN [images[i] EXCEPT !.dir = str_uuid, !.id = d]
        ELSE images[i]]

(***************************************************************************)
(* C38: fix_collection_paths rewrites a record's images to a list of the   *)
(* same length and order (each binary-form id segment replaced by the      *)
(* record's canonical id, every other entry unchanged), also when moving a *)
(* file fails, and a second run over the same records changes nothing.     *)
(***************************************************************************)
C38_SameLengthAndOrder ==
    [][\A d \in DocIds :
          \* the loop handles record d
          /\ (fix_docs # <<>> /\ fix_docs' = Tail(fix_docs) /\ Head(fix_docs).id = d) =>
                collection'[d].images = Rewritten(collection[d].images, d)
          \* a run after the first one
          /\ fix_run > 1 => collection'[d] = collection[d]]_vars

\* what the code does: a list of the same length and order when every move
\* went through, and one more entry, the old path after the new one, for
\* each file that could not be moved; such a record is rewritten again by
\* the next run
C38_OldPathKeptAfterFailedMove ==
    [][\A d \in DocIds :
          collection'[d] # collection[d] =>
             /\ fix_last'.id = d
             /\ Len(collection'[d].images) =
                   Len(collection[d].images) + Cardinality(fix_last'.failed)
             /\ fix_last'.failed = {} =>
                   collection'[d].images = Rewritten(collection[d].images, d)
             /\ \A i \in fix_last'.failed :
                   \E j \in DOMAIN collection'[d].images :
                      /\ j > 1
                      /\ collection'[d].images[j] = collection[d].images[i]
                      /\ collection'[d].images[j - 1] =
                            Rewritten(collection[d].images, d)[i]]_vars

====
